---- MODULE Spec2Model ----
(***************************************************************************)
(* State-machine model of SurveyBot (src/LiteSurveyInterceptor.py): the    *)
(* run-state flags alive/running, the controlling thread that calls        *)
(* configure / start / pause / stop_and_close, and the worker threads that *)
(* execute _thread_main with its five handlers, the pacing sleep and the   *)
(* page advance.  Time is counted in sleep slices (resolution = 0.1 s).    *)
(***************************************************************************)
EXTENDS Integers, Sequences, FiniteSets, TLC

\* ---------------------------------------------------------------- bounds
\* controls (or groups) one discovery query returns
MaxControls == 1
\* unselected candidates found in one multi-choice group / multi-select
MaxCandidates == 2
\* largest delay_min / delay_max the controller configures, in slices
MaxDelay == 1
\* longest pacing sleep drawn, in slices
MaxSlices == 2

\* --------------------------------------------------- program constants
\* random.uniform(0, 0.4) over resolution = 0.1: up to 4 extra slices
JitterSlices == 4
\* random.randint(2, min(5, len(candidates)))
MinPick == 2
MaxPick == 5

\* the Thread objects of one behaviour: the one start() creates first (147) and
\* the one it creates after a stop_and_close whose join gave up on the first
Threads == {1, 2}
NoThread == 0

\* the handlers of one pass in the order _thread_main calls them
HandlerOrder == <<"radios", "checkboxes", "texts", "textareas", "selects">>

VARIABLES
    alive,      \* self.alive
    running,    \* self.running
    driver,     \* self.driver: "None", "open" (live session), "quit" (closed, handle still set)
    thread,     \* self.thread: id of the Thread object start() created last, NoThread = None
    delay_min,  \* self.delay_min (slices)
    delay_max,  \* self.delay_max (slices)
    profile,    \* self.profile (its name)
    cpc,        \* position of the controlling thread
    carg,       \* arguments of the configure() call in progress
    wpc,        \* wpc[t]: position of worker thread t in _thread_main
    wh,         \* wh[t]: index in HandlerOrder of the handler t is in (0 outside)
    todo,       \* todo[t]: controls left in the handler's for loop
    sel,        \* sel[t]: elements left in to_select / chosen (inner loop), -1 outside
    slices,     \* slices[t]: sleep slices left in _interruptible_sleep
    rmin,       \* rmin[t]: delay_min as _rand_delay read it for the current sleep, else -1
    rmax,       \* rmax[t]: delay_max as _rand_delay read it for the current sleep, else -1
    calls,      \* threads inside a browser-automation call (0 = controlling thread)
    stale,      \* threads inside a handler whose element handles belong to a closed session
    passLog,    \* passLog[t]: handlers / advance begun in the current pass, in order
    why,        \* why[t]: how the pass t has just left ended ("none" once back at line 480)
    afterPause, \* afterPause[t]: commits of t since pause() with no start() after it, -1 if none pending
    call,       \* the intelligent_answer call under study: its arguments and its outcome
    page,       \* the controls of the page a handler under study works on, in document order
    frame,      \* the locals and the position of the handler under study
    commits     \* the commits (successful clicks, text writes) of the handler under study

vars == <<alive, running, driver, thread, delay_min, delay_max, profile, cpc, carg,
          wpc, wh, todo, sel, slices, rmin, rmax, calls, stale, passLog, why, afterPause,
          call, page, frame, commits>>

ctlVars == <<alive, running, driver, thread, delay_min, delay_max, profile, cpc, carg>>
wrkVars == <<wpc, wh, todo, sel, slices, rmin, rmax, passLog, why>>
\* what the studies of single calls and single handlers use; the run-state machine
\* leaves it alone
dataVars == <<call, page, frame, commits>>

CtlThread == 0

\* names of the profiles configure() is given (their pools: Profiles)
ProfileNames == {"Default", "Conservative", "Empty"}

\* float("nan"): what float() makes of the entry "nan" (749-750)
NaN == -2

\* what float() makes of a delay entry, in slices: a negative number, a number
\* within the bound, or nan
Entries == (-1..MaxDelay) \cup {NaN}

\* x < y on floats: false whenever one of the two is nan
Less(x, y) == x # NaN /\ y # NaN /\ x < y

\* the guard of start_pressed, line 751: dmin < 0 or dmax < 0 or dmin > dmax
Rejected(dmin, dmax) == Less(dmin, 0) \/ Less(dmax, 0) \/ Less(dmax, dmin)

\* delay windows start_pressed accepts (748-755): the pairs its guard lets through
Windows == {w \in Entries \X Entries : ~Rejected(w[1], w[2])}

\* ------------------------------------------------------------------ Init
\* SurveyBot.__init__ (96-111), with the delay window of the first configure():
\* the widest one within the bound
BotInit ==
    /\ alive = FALSE
    /\ running = FALSE
    /\ driver = "None"
    /\ thread = NoThread
    /\ delay_min = 0
    /\ delay_max = MaxDelay
    /\ profile = "Default"
    /\ cpc = "idle"
    /\ carg = <<>>
    /\ wpc = [t \in Threads |-> "none"]
    /\ wh = [t \in Threads |-> 0]
    /\ todo = [t \in Threads |-> 0]
    /\ sel = [t \in Threads |-> -1]
    /\ slices = [t \in Threads |-> 0]
    /\ rmin = [t \in Threads |-> -1]
    /\ rmax = [t \in Threads |-> -1]
    /\ calls = {}
    /\ stale = {}
    /\ passLog = [t \in Threads |-> <<>>]
    /\ why = [t \in Threads |-> "none"]
    /\ afterPause = [t \in Threads |-> -1]

\* no handler under study
NoHandler == page = <<>> /\ frame = <<>> /\ commits = {}

\* the run-state machine alone: no call or handler under study
Init ==
    /\ BotInit
    /\ call = <<>>
    /\ NoHandler

\* ============================================================ controller
\* positions of a worker that holds element handles of the page
HandlerPcs == {"for", "inspect_call", "inner", "click_call", "sleep_max", "slice",
               "advance_call"}

\* line 144: start() creates a worker thread exactly when alive is false
StartCreates(al) == ~al

\* SurveyBot.start (142-152)
Start ==
    /\ cpc = "idle"
    /\ IF StartCreates(alive)
       THEN /\ thread + 1 \in Threads
            /\ alive' = TRUE
            /\ thread' = thread + 1
            /\ wpc' = [wpc EXCEPT ![thread + 1] = "while"]
       ELSE UNCHANGED <<alive, thread, wpc>>
    /\ running' = TRUE
    /\ afterPause' = [t \in Threads |-> -1]
    /\ UNCHANGED <<driver, delay_min, delay_max, profile, cpc, carg,
                   wh, todo, sel, slices, rmin, rmax, calls, stale, passLog, why, dataVars>>

\* pause() tearing the loop down as well
PauseFlags_stops(al, run) == <<FALSE, FALSE>>

\* what pause() leaves of the run state: <<alive, running>>
PauseFlags(al, run) == <<al, FALSE>>

\* SurveyBot.pause (154-156)
Pause ==
    /\ cpc = "idle"
    /\ alive' = PauseFlags(alive, running)[1]
    /\ running' = PauseFlags(alive, running)[2]
    /\ afterPause' = [t \in Threads |-> IF afterPause[t] = -1 THEN 0 ELSE afterPause[t]]
    /\ UNCHANGED <<driver, thread, delay_min, delay_max, profile, cpc, carg,
                   wrkVars, calls, stale, dataVars>>

\* the two flags cleared in the other order: alive first
StopFirst_alive(al, run) == <<FALSE, run>>

\* stop_and_close, line 159: <<alive, running>> after self.running = False
StopFirst(al, run) == <<al, FALSE>>

\* stop_and_close, line 159: self.running = False
StopRunning ==
    /\ cpc = "idle"
    /\ alive' = StopFirst(alive, running)[1]
    /\ running' = StopFirst(alive, running)[2]
    /\ cpc' = "stop_alive"
    /\ UNCHANGED <<driver, thread, delay_min, delay_max, profile, carg,
                   wrkVars, calls, stale, afterPause, dataVars>>

\* stop_and_close, line 160: self.alive = False
StopAlive ==
    /\ cpc = "stop_alive"
    /\ alive' = FALSE
    /\ cpc' = "stop_join"
    /\ UNCHANGED <<running, driver, thread, delay_min, delay_max, profile, carg,
                   wrkVars, calls, stale, afterPause, dataVars>>

\* self.thread.is_alive()
ThreadIsAlive == thread # NoThread /\ wpc[thread] # "done"

\* stop_and_close, lines 161-162: no thread, or the thread has finished
StopJoinReturns ==
    /\ cpc = "stop_join"
    /\ ~ThreadIsAlive
    /\ cpc' = "stop_driver"
    /\ UNCHANGED <<alive, running, driver, thread, delay_min, delay_max, profile, carg,
                   wrkVars, calls, stale, afterPause, dataVars>>

\* stop_and_close, line 162: join(timeout=0.4) gives up on a thread still alive
StopJoinTimeout ==
    /\ cpc = "stop_join"
    /\ ThreadIsAlive
    /\ cpc' = "stop_driver"
    /\ UNCHANGED <<alive, running, driver, thread, delay_min, delay_max, profile, carg,
                   wrkVars, calls, stale, afterPause, dataVars>>

\* stop_and_close, lines 164-166: if self.driver: self.driver.quit() is issued
StopQuitIssue ==
    /\ cpc = "stop_driver"
    /\ IF driver = "None"
       THEN /\ cpc' = "idle"
            /\ calls' = calls
       ELSE /\ cpc' = "stop_quit"
            /\ calls' = calls \cup {CtlThread}
    /\ UNCHANGED <<alive, running, driver, thread, delay_min, delay_max, profile, carg,
                   wrkVars, stale, afterPause, dataVars>>

\* stop_and_close, lines 166-168: quit() returns or raises (suppressed); the
\* session is gone, the handles workers hold are dead
StopQuitReturn ==
    /\ cpc = "stop_quit"
    /\ \E ok \in BOOLEAN : carg' = <<ok>>
    /\ driver' = "quit"
    /\ calls' = calls \ {CtlThread}
    /\ stale' = stale \cup {t \in Threads : wpc[t] \in HandlerPcs}
    /\ cpc' = "stop_clear"
    /\ UNCHANGED <<alive, running, thread, delay_min, delay_max, profile,
                   wrkVars, afterPause, dataVars>>

\* the handle cleared inside the inner try, after quit(): kept when quit() raises
DriverAfterQuit_inTry(ok) == IF ok THEN "None" ELSE "quit"

\* self.driver after the try block of lines 165-169 (ok: quit() did not raise)
DriverAfterQuit(ok) == "None"

\* stop_and_close, lines 169-170: self.driver = None, then return
StopClear ==
    /\ cpc = "stop_clear"
    /\ driver' = DriverAfterQuit(carg[1])
    /\ carg' = <<>>
    /\ cpc' = "idle"
    /\ UNCHANGED <<alive, running, thread, delay_min, delay_max, profile,
                   wrkVars, calls, stale, afterPause, dataVars>>

\* create_driver_if_needed (114-129) as start_pressed (770-771) and
\* open_new_url (794-795) call it: the session is started and assigned to
\* self.driver (128), and set_window_size is issued on it (129)
CreateDriver ==
    /\ cpc = "idle"
    /\ driver = "None"
    /\ driver' = "open"
    /\ calls' = calls \cup {CtlThread}
    /\ cpc' = "create_size"
    /\ UNCHANGED <<alive, running, thread, delay_min, delay_max, profile, carg,
                   wrkVars, stale, afterPause, dataVars>>

\* set_window_size returns and the caller goes on to driver.get(url) (774,
\* 796); or it raises (131-133) and the caller logs that (781, 798)
CreateReturn ==
    /\ cpc = "create_size"
    /\ calls' = calls \ {CtlThread}
    /\ \E ok \in BOOLEAN : cpc' = IF ok THEN "get" ELSE "idle"
    /\ UNCHANGED <<alive, running, driver, thread, delay_min, delay_max, profile, carg,
                   wrkVars, stale, afterPause, dataVars>>

\* self.bot.driver.get(url) is issued: after the session was created (774,
\* 796), or by open_new_url on the session there is (796)
GetIssue ==
    /\ cpc = "get" \/ (cpc = "idle" /\ driver = "open")
    /\ calls' = calls \cup {CtlThread}
    /\ cpc' = "get_call"
    /\ UNCHANGED <<alive, running, driver, thread, delay_min, delay_max, profile, carg,
                   wrkVars, stale, afterPause, dataVars>>

\* driver.get(url) returns, or raises and is logged (776-777, 798-799)
GetReturn ==
    /\ cpc = "get_call"
    /\ calls' = calls \ {CtlThread}
    /\ cpc' = "idle"
    /\ UNCHANGED <<alive, running, driver, thread, delay_min, delay_max, profile, carg,
                   wrkVars, stale, afterPause, dataVars>>

\* configure, line 137: self.delay_min = float(dmin)
ConfigureMin ==
    /\ cpc = "idle"
    /\ \E w \in Windows, p \in ProfileNames :
          /\ delay_min' = w[1]
          /\ carg' = <<w[2], p>>
    /\ cpc' = "cfg_max"
    /\ UNCHANGED <<alive, running, driver, thread, delay_max, profile,
                   wrkVars, calls, stale, afterPause, dataVars>>

\* configure, line 138: self.delay_max = float(dmax)
ConfigureMax ==
    /\ cpc = "cfg_max"
    /\ delay_max' = carg[1]
    /\ cpc' = "cfg_profile"
    /\ UNCHANGED <<alive, running, driver, thread, delay_min, profile, carg,
                   wrkVars, calls, stale, afterPause, dataVars>>

\* configure, line 139: self.profile = profile
ConfigureProfile ==
    /\ cpc = "cfg_profile"
    /\ profile' = carg[2]
    /\ carg' = <<>>
    /\ cpc' = "idle"
    /\ UNCHANGED <<alive, running, driver, thread, delay_min, delay_max,
                   wrkVars, calls, stale, afterPause, dataVars>>

\* ================================================================ worker
Handler(t) == HandlerOrder[wh[t]]

\* the rest of the state a worker step leaves alone
WorkerFrame ==
    UNCHANGED <<alive, driver, thread, delay_min, delay_max, profile, cpc, carg, dataVars>>

\* a commit (successful click, text write or advance click) of t
Committed(t) ==
    [afterPause EXCEPT ![t] = IF @ \in 0..1 THEN @ + 1 ELSE @]

\* a loop that never reads alive: while True
WhileNext_forever(al) == "ifrun"

\* _thread_main, line 480: while self.alive (line 507 when it is false)
WhileNext(al) == IF al THEN "ifrun" ELSE "done"

WhileAlive(t) ==
    /\ wpc[t] = "while"
    /\ wpc' = [wpc EXCEPT ![t] = WhileNext(alive)]
    /\ why' = [why EXCEPT ![t] = "none"]
    /\ passLog' = [passLog EXCEPT ![t] = <<>>]
    /\ WorkerFrame
    /\ UNCHANGED <<running, wh, todo, sel, slices, rmin, rmax, calls, stale, afterPause>>

\* _thread_main, lines 481-483: if not self.running: time.sleep(0.12); continue.
\* A pass begins when running is true
IfRunning(t) ==
    /\ wpc[t] = "ifrun"
    /\ IF running
       THEN wpc' = [wpc EXCEPT ![t] = "captcha"]
       ELSE wpc' = [wpc EXCEPT ![t] = "while"]
    /\ WorkerFrame
    /\ UNCHANGED <<running, wh, todo, sel, slices, rmin, rmax, calls, stale, passLog, why,
                   afterPause>>

\* _detect_captcha, line 255: self.driver.find_elements is issued; with
\* self.driver None the AttributeError lands in the except clause of line 263
DetectIssue(t) ==
    /\ wpc[t] = "captcha"
    /\ IF driver = "None"
       THEN /\ wpc' = [wpc EXCEPT ![t] = "captcha_except"]
            /\ calls' = calls
       ELSE /\ wpc' = [wpc EXCEPT ![t] = "captcha_call"]
            /\ calls' = calls \cup {t}
    /\ wh' = wh
    /\ WorkerFrame
    /\ UNCHANGED <<running, todo, sel, slices, rmin, rmax, stale, passLog, why, afterPause>>

\* what _detect_captcha can answer: on a dead session the query raises
DetectOutcomes == IF driver = "open" THEN {"detected", "clear", "error"} ELSE {"error"}

\* _detect_captcha, lines 253-264: True only when a challenge was found
DetectResult(o) == o = "detected"

\* the inspection of lines 255-262 comes to an end: a challenge found (True
\* at line 485), none found (False), or an exception (line 263)
DetectReturn(t) ==
    /\ wpc[t] = "captcha_call"
    /\ \E o \in DetectOutcomes :
          IF DetectResult(o)
          THEN /\ wpc' = [wpc EXCEPT ![t] = "pause_captcha"]
               /\ wh' = wh
          ELSE IF o = "error"
          THEN /\ wpc' = [wpc EXCEPT ![t] = "captcha_except"]
               /\ wh' = wh
          ELSE /\ wpc' = [wpc EXCEPT ![t] = "find"]
               /\ wh' = [wh EXCEPT ![t] = 1]
    /\ calls' = calls \ {t}
    /\ WorkerFrame
    /\ UNCHANGED <<running, todo, sel, slices, rmin, rmax, stale, passLog, why, afterPause>>

\* an inspection failure taken as a challenge
DetectExceptNext_failClosed == "pause_captcha"

\* _detect_captcha, lines 263-264: except Exception: return False; line 485
\* reads False and the pass goes on to the first handler
DetectExceptNext == "find"

DetectExcept(t) ==
    /\ wpc[t] = "captcha_except"
    /\ wpc' = [wpc EXCEPT ![t] = DetectExceptNext]
    /\ wh' = [wh EXCEPT ![t] = IF DetectExceptNext = "find" THEN 1 ELSE 0]
    /\ WorkerFrame
    /\ UNCHANGED <<running, todo, sel, slices, rmin, rmax, calls, stale, passLog, why,
                   afterPause>>

\* line 488 without its continue: the pass goes on into the handlers
CaptchaNext_noContinue == "find"

\* _thread_main, line 488: continue
CaptchaNext == "while"

\* _thread_main, lines 486-488: self.running = False; continue
PauseCaptcha(t) ==
    /\ wpc[t] = "pause_captcha"
    /\ running' = FALSE
    /\ wpc' = [wpc EXCEPT ![t] = CaptchaNext]
    /\ wh' = [wh EXCEPT ![t] = IF CaptchaNext = "find" THEN 1 ELSE 0]
    /\ why' = [why EXCEPT ![t] = "captcha"]
    /\ WorkerFrame
    /\ UNCHANGED <<todo, sel, slices, rmin, rmax, calls, stale, passLog, afterPause>>

\* the handler's discovery query (291, 331, 402, 424, 365) is issued: the
\* handler has begun; with self.driver None the AttributeError leaves the handler
FindIssue(t) ==
    /\ wpc[t] = "find"
    /\ passLog' = [passLog EXCEPT ![t] = Append(@, Handler(t))]
    /\ IF driver = "None"
       THEN /\ wpc' = [wpc EXCEPT ![t] = "pause_error"]
            /\ calls' = calls
       ELSE /\ wpc' = [wpc EXCEPT ![t] = "find_call"]
            /\ calls' = calls \cup {t}
    /\ WorkerFrame
    /\ UNCHANGED <<running, wh, todo, sel, slices, rmin, rmax, stale, why, afterPause>>

\* the for statement with n controls left: the loop body, or the handler returns
LoopNext(n) == IF n = 0 THEN "after" ELSE "for"

\* the discovery query returns n controls, or raises (no handler catches it)
FindReturn(t) ==
    /\ wpc[t] = "find_call"
    /\ \/ /\ driver = "open"
          /\ \E n \in 0..MaxControls :
                /\ todo' = [todo EXCEPT ![t] = n]
                /\ wpc' = [wpc EXCEPT ![t] = LoopNext(n)]
          /\ stale' = stale \ {t}
       \/ /\ wpc' = [wpc EXCEPT ![t] = "pause_error"]
          /\ UNCHANGED <<todo, stale>>
    /\ calls' = calls \ {t}
    /\ WorkerFrame
    /\ UNCHANGED <<running, wh, sel, slices, rmin, rmax, passLog, why, afterPause>>

\* first statement of the loop body (296-297, 336-337, 404-405, 426-427, 367-368);
\* past the check the per-control queries go out through the element handle
\* (299, 310, 350, 370, 407, 429)
ForNext(run) == IF ~run THEN "after" ELSE "inspect_call"

ForHead(t) ==
    /\ wpc[t] = "for"
    /\ wpc' = [wpc EXCEPT ![t] = ForNext(running)]
    /\ todo' = [todo EXCEPT ![t] = IF ForNext(running) = "after" THEN 0 ELSE @]
    /\ calls' = IF ForNext(running) = "inspect_call" THEN calls \cup {t} ELSE calls
    /\ WorkerFrame
    /\ UNCHANGED <<running, wh, sel, slices, rmin, rmax, stale, passLog, why, afterPause>>

\* random.randint(2, min(5, n)): the counts it can return (none: ValueError)
PickCounts(n) == MinPick..(IF n < MaxPick THEN n ELSE MaxPick)

\* what inspecting one control of handler h can come to; an "answer" goes
\* straight on to the commit: _safe_click(el) (325, 394) or send_keys (416, 438)
InspectOutcomes(h, dead) ==
    IF dead THEN {<<"raise", 0>>}
    ELSE {<<"skip", 0>>, <<"raise", 0>>}
         \cup (IF h # "checkboxes" THEN {<<"answer", 0>>} ELSE {})
         \cup (IF h = "radios" THEN {<<"empty", 0>>} ELSE {})
         \cup (IF h \in {"checkboxes", "selects"}
               THEN {<<"pick", n>> : n \in 1..MaxCandidates} ELSE {})

\* where an exception raised while inspecting a control of handler h lands:
\* radios and checkboxes have no try around it (310, 324, 350, 353), the others
\* log it and go on to the pacing sleep (396-398, 418-420, 440-442)
RaiseNext(h) == IF h \in {"radios", "checkboxes"} THEN "pause_error" ELSE "sleep_max"

\* _interruptible_sleep is entered (179) and _rand_delay reads self.delay_min
\* (176): rmin once t moves to "sleep_max"
ReadMin(t, next) == IF next = "sleep_max" THEN [rmin EXCEPT ![t] = delay_min] ELSE rmin

InspectReturn(t) ==
    /\ wpc[t] = "inspect_call"
    /\ \E o \in InspectOutcomes(Handler(t), t \in stale \/ driver # "open") :
          CASE o[1] = "skip" ->
                  /\ wpc' = [wpc EXCEPT ![t] = LoopNext(todo[t] - 1)]
                  /\ todo' = [todo EXCEPT ![t] = @ - 1]
                  /\ sel' = sel
                  /\ calls' = calls \ {t}
                  /\ rmin' = rmin
            [] o[1] = "answer" ->
                  /\ wpc' = [wpc EXCEPT ![t] = "click_call"]
                  /\ calls' = calls
                  /\ UNCHANGED <<todo, sel, rmin>>
            [] o[1] = "pick" /\ PickCounts(o[2]) # {} ->
                  /\ wpc' = [wpc EXCEPT ![t] = "inner"]
                  /\ \E k \in PickCounts(o[2]) : sel' = [sel EXCEPT ![t] = k]
                  /\ todo' = todo
                  /\ calls' = calls \ {t}
                  /\ rmin' = rmin
            [] OTHER ->
                  /\ wpc' = [wpc EXCEPT ![t] = RaiseNext(Handler(t))]
                  /\ rmin' = ReadMin(t, RaiseNext(Handler(t)))
                  /\ calls' = calls \ {t}
                  /\ UNCHANGED <<todo, sel>>
    /\ WorkerFrame
    /\ UNCHANGED <<running, wh, slices, rmax, stale, passLog, why, afterPause>>

\* the inner loop without the running check of lines 356-357 / 381
InnerNext_noCheck(run, k, h) ==
    IF k = 0 THEN (IF h = "selects" THEN "sleep_max" ELSE "for") ELSE "click_call"

\* head of the inner loop over to_select / chosen (355-358, 380-382); past the
\* check the commit _safe_click(el) is issued
InnerNext(run, k, h) ==
    IF k = 0 THEN (IF h = "selects" THEN "sleep_max" ELSE "for")
    ELSE IF ~run THEN "after" ELSE "click_call"

InnerHead(t) ==
    /\ wpc[t] = "inner"
    /\ wpc' = [wpc EXCEPT ![t] =
                  IF InnerNext(running, sel[t], Handler(t)) = "for"
                  THEN LoopNext(todo[t] - 1) ELSE InnerNext(running, sel[t], Handler(t))]
    /\ rmin' = ReadMin(t, InnerNext(running, sel[t], Handler(t)))
    /\ sel' = [sel EXCEPT ![t] =
                  IF InnerNext(running, sel[t], Handler(t)) = "click_call" THEN @ ELSE -1]
    /\ calls' = IF InnerNext(running, sel[t], Handler(t)) = "click_call"
                THEN calls \cup {t} ELSE calls
    /\ todo' = [todo EXCEPT ![t] =
                   CASE InnerNext(running, sel[t], Handler(t)) = "for" -> @ - 1
                     [] InnerNext(running, sel[t], Handler(t)) = "after" -> 0
                     [] OTHER -> @]
    /\ WorkerFrame
    /\ UNCHANGED <<running, wh, slices, rmax, stale, passLog, why, afterPause>>

\* <<committed, the log line after it raised>>: _answer_selects reads the
\* element again for its log line whatever the click came to (383, 395), and
\* _answer_checkboxes after a click that went through (359)
ClickOutcomes(h, dead) ==
    IF dead THEN {<<FALSE, h = "selects">>}
    ELSE {<<TRUE, FALSE>>, <<FALSE, FALSE>>}
         \cup (IF h = "selects" THEN {<<TRUE, TRUE>>, <<FALSE, TRUE>>} ELSE {})
         \cup (IF h = "checkboxes" THEN {<<TRUE, TRUE>>} ELSE {})

\* where the worker goes once the commit has returned: on to the pacing sleep;
\* an exception of the log line is caught in _answer_selects (396), which goes
\* on to the sleep of line 398, and by nothing in _answer_checkboxes (359)
ClickNext(h, raised) ==
    IF raised /\ h = "checkboxes" THEN "pause_error" ELSE "sleep_max"

ClickReturn(t) ==
    /\ wpc[t] = "click_call"
    /\ \E o \in ClickOutcomes(Handler(t), t \in stale \/ driver # "open") :
          /\ afterPause' = IF o[1] THEN Committed(t) ELSE afterPause
          /\ sel' = [sel EXCEPT ![t] = IF o[2] THEN -1 ELSE @]
          /\ wpc' = [wpc EXCEPT ![t] = ClickNext(Handler(t), o[2])]
          /\ rmin' = ReadMin(t, ClickNext(Handler(t), o[2]))
    /\ calls' = calls \ {t}
    /\ WorkerFrame
    /\ UNCHANGED <<running, wh, todo, slices, rmax, stale, passLog, why>>

\* random.uniform(a, b) = a + (b - a) * random(): a value between the two, nan
\* when one of them is nan
Uniform(a, b) ==
    IF a = NaN \/ b = NaN THEN {NaN} ELSE IF a <= b THEN a..b ELSE b..a

\* _rand_delay, line 176: the durations it can return from the pair it read
RandDelay(a, b) ==
    {IF d = NaN THEN NaN ELSE d + j : d \in Uniform(a, b), j \in 0..JitterSlices}

\* the turns of `while slept < total` (182) a total allows: none for nan, for
\* which the comparison is false
Turns(total) == IF total = NaN THEN 0 ELSE total

\* _rand_delay, line 176: self.delay_max is read and the total is drawn
\* (_interruptible_sleep, 179-181)
SleepReadMax(t) ==
    /\ wpc[t] = "sleep_max"
    /\ rmax' = [rmax EXCEPT ![t] = delay_max]
    /\ \E total \in RandDelay(rmin[t], delay_max) :
          /\ Turns(total) <= MaxSlices
          /\ slices' = [slices EXCEPT ![t] = Turns(total)]
    /\ wpc' = [wpc EXCEPT ![t] = "slice"]
    /\ WorkerFrame
    /\ UNCHANGED <<running, wh, todo, sel, rmin, calls, stale, passLog, why, afterPause>>

\* _interruptible_sleep, lines 182-187: "True" (slept it all), "False"
\* (running was cleared) or "sleep" (one more slice)
SliceNext(run, left) ==
    IF left = 0 THEN "True" ELSE IF ~run THEN "False" ELSE "sleep"

\* one turn of the loop of _interruptible_sleep and, when it returns, the
\* caller's reaction (327-328, 361-362, 384, 398-399, 420-421, 442-443)
SliceHead(t) ==
    /\ wpc[t] = "slice"
    /\ CASE SliceNext(running, slices[t]) = "sleep" ->
              /\ slices' = [slices EXCEPT ![t] = @ - 1]
              /\ UNCHANGED <<wpc, todo, sel, rmin, rmax>>
         [] SliceNext(running, slices[t]) = "False" ->
              /\ slices' = [slices EXCEPT ![t] = 0]
              /\ wpc' = [wpc EXCEPT ![t] = "after"]
              /\ todo' = [todo EXCEPT ![t] = 0]
              /\ sel' = [sel EXCEPT ![t] = -1]
              /\ rmin' = [rmin EXCEPT ![t] = -1]
              /\ rmax' = [rmax EXCEPT ![t] = -1]
         [] OTHER ->
              /\ slices' = slices
              /\ rmin' = [rmin EXCEPT ![t] = -1]
              /\ rmax' = [rmax EXCEPT ![t] = -1]
              /\ IF sel[t] >= 0
                 THEN /\ wpc' = [wpc EXCEPT ![t] = "inner"]
                      /\ sel' = [sel EXCEPT ![t] = @ - 1]
                      /\ todo' = todo
                 ELSE /\ wpc' = [wpc EXCEPT ![t] = LoopNext(todo[t] - 1)]
                      /\ todo' = [todo EXCEPT ![t] = @ - 1]
                      /\ sel' = sel
    /\ WorkerFrame
    /\ UNCHANGED <<running, wh, calls, stale, passLog, why, afterPause>>

\* the pass without the running checks of lines 490-498
AfterNext_noCheck(run, h) == IF h < Len(HandlerOrder) THEN "find" ELSE "advance"

\* _thread_main, lines 490-500: after handler number h returned
AfterNext(run, h) ==
    IF ~run THEN "while" ELSE IF h < Len(HandlerOrder) THEN "find" ELSE "advance"

AfterHandler(t) ==
    /\ wpc[t] = "after"
    /\ wpc' = [wpc EXCEPT ![t] = AfterNext(running, wh[t])]
    /\ wh' = [wh EXCEPT ![t] =
                 CASE AfterNext(running, wh[t]) = "find" -> @ + 1
                   [] OTHER -> 0]
    /\ why' = [why EXCEPT ![t] = IF AfterNext(running, wh[t]) = "while" THEN "cancel" ELSE @]
    /\ stale' = stale \ {t}
    /\ WorkerFrame
    /\ UNCHANGED <<running, todo, sel, slices, rmin, rmax, calls, passLog, afterPause>>

\* _click_next_if_any is entered (500, 448); with self.driver None the
\* AttributeError is caught at 473 and the answer is False
AdvanceIssue(t) ==
    /\ wpc[t] = "advance"
    /\ passLog' = [passLog EXCEPT ![t] = Append(@, "advance")]
    /\ IF driver = "None"
       THEN /\ wpc' = [wpc EXCEPT ![t] = "pause_deadend"]
            /\ calls' = calls
       ELSE /\ wpc' = [wpc EXCEPT ![t] = "advance_call"]
            /\ calls' = calls \cup {t}
    /\ WorkerFrame
    /\ UNCHANGED <<running, wh, todo, sel, slices, rmin, rmax, stale, why, afterPause>>

\* _click_next_if_any, lines 445-475: "clicked", "nomatch", "allfailed", "error";
\* a call the session was closed under (t in stale) may have made its click, or
\* its last query, before that
AdvanceOutcomes(t) ==
    IF driver = "open" \/ t \in stale THEN {"clicked", "nomatch", "allfailed", "error"}
    ELSE {"error"}

AdvanceResult(o) == o = "clicked"

\* _thread_main, lines 500-501
AdvanceReturn(t) ==
    /\ wpc[t] = "advance_call"
    /\ \E o \in AdvanceOutcomes(t) :
          IF AdvanceResult(o)
          THEN /\ wpc' = [wpc EXCEPT ![t] = "while"]
               /\ afterPause' = Committed(t)
               /\ why' = [why EXCEPT ![t] = "advanced"]
          ELSE /\ wpc' = [wpc EXCEPT ![t] = "pause_deadend"]
               /\ UNCHANGED <<afterPause, why>>
    /\ calls' = calls \ {t}
    /\ stale' = stale \ {t}
    /\ WorkerFrame
    /\ UNCHANGED <<running, wh, todo, sel, slices, rmin, rmax, passLog>>

\* a dead-end page ending the loop instead of pausing it
DeadEnd_stops(al) == <<FALSE, FALSE, "done">>

\* <<alive, running, next position>> after "No next/submit" (502-503)
DeadEnd(al) == <<al, FALSE, "while">>

PauseDeadend(t) ==
    /\ wpc[t] = "pause_deadend"
    /\ alive' = DeadEnd(alive)[1]
    /\ running' = DeadEnd(alive)[2]
    /\ wpc' = [wpc EXCEPT ![t] = DeadEnd(alive)[3]]
    /\ why' = [why EXCEPT ![t] = "deadend"]
    /\ UNCHANGED <<driver, thread, delay_min, delay_max, profile, cpc, carg, dataVars>>
    /\ UNCHANGED <<wh, todo, sel, slices, rmin, rmax, calls, stale, passLog, afterPause>>

\* no except clause: the exception ends the thread
ExceptNext_uncaught == "done"

\* where the worker is after an exception reached line 504: back in the loop
ExceptNext == "while"

\* _thread_main, lines 504-506: except Exception: log; self.running = False
PauseError(t) ==
    /\ wpc[t] = "pause_error"
    /\ running' = FALSE
    /\ wpc' = [wpc EXCEPT ![t] = ExceptNext]
    /\ wh' = [wh EXCEPT ![t] = 0]
    /\ todo' = [todo EXCEPT ![t] = 0]
    /\ sel' = [sel EXCEPT ![t] = -1]
    /\ why' = [why EXCEPT ![t] = "error"]
    /\ stale' = stale \ {t}
    /\ WorkerFrame
    /\ UNCHANGED <<slices, rmin, rmax, calls, passLog, afterPause>>

\* ================================================================= specs
Controller ==
    \/ Start
    \/ Pause
    \/ StopRunning
    \/ StopAlive
    \/ StopJoinReturns
    \/ StopJoinTimeout
    \/ StopQuitIssue
    \/ StopQuitReturn
    \/ StopClear
    \/ CreateDriver
    \/ CreateReturn
    \/ GetIssue
    \/ GetReturn

Reconfigure ==
    \/ ConfigureMin
    \/ ConfigureMax
    \/ ConfigureProfile

Worker(t) ==
    \/ WhileAlive(t)
    \/ IfRunning(t)
    \/ DetectIssue(t)
    \/ DetectReturn(t)
    \/ DetectExcept(t)
    \/ PauseCaptcha(t)
    \/ FindIssue(t)
    \/ FindReturn(t)
    \/ ForHead(t)
    \/ InspectReturn(t)
    \/ InnerHead(t)
    \/ ClickReturn(t)
    \/ SleepReadMax(t)
    \/ SliceHead(t)
    \/ AfterHandler(t)
    \/ AdvanceIssue(t)
    \/ AdvanceReturn(t)
    \/ PauseDeadend(t)
    \/ PauseError(t)

Next == Controller \/ \E t \in Threads : Worker(t)

\* the run-state machine: start / pause / stop_and_close against the workers
Spec == Init /\ [][Next]_vars

NextStop ==
    \/ Start
    \/ StopRunning
    \/ StopAlive
    \/ StopJoinReturns
    \/ StopJoinTimeout
    \/ StopQuitIssue
    \/ StopQuitReturn
    \/ StopClear
    \/ CreateDriver
    \/ CreateReturn
    \/ GetIssue
    \/ GetReturn
    \/ \E t \in Threads : Worker(t)

\* start and stop_and_close against the workers, every worker thread scheduled
\* again and again: a worker in _thread_main takes its next step, and the
\* browser call it is in returns
SpecStop == Init /\ [][NextStop]_vars /\ \A t \in Threads : WF_vars(Worker(t))

NextCfg ==
    \/ Start
    \/ Pause
    \/ CreateDriver
    \/ CreateReturn
    \/ GetIssue
    \/ GetReturn
    \/ Reconfigure
    \/ \E t \in Threads : Worker(t)

\* the loop started, paused, resumed and reconfigured at any time (never stopped)
SpecCfg == Init /\ [][NextCfg]_vars

\* ============================================== intelligent_answer (267-287)

\* bound: phrases a question text is put together from
MaxPhrases == 2

\* Strings are sequences of one-character strings, of the characters up to
\* U+00FF.
\* the letters A-Z lower-cased: str.lower() (268, 320, 389, 466) and the
\* translate() of the XPath queries (449, 456) both map them
UpperToLower ==
    ("A" :> "a") @@
    ("B" :> "b") @@
    ("C" :> "c") @@
    ("D" :> "d") @@
    ("E" :> "e") @@
    ("F" :> "f") @@
    ("G" :> "g") @@
    ("H" :> "h") @@
    ("I" :> "i") @@
    ("J" :> "j") @@
    ("K" :> "k") @@
    ("L" :> "l") @@
    ("M" :> "m") @@
    ("N" :> "n") @@
    ("O" :> "o") @@
    ("P" :> "p") @@
    ("Q" :> "q") @@
    ("R" :> "r") @@
    ("S" :> "s") @@
    ("T" :> "t") @@
    ("U" :> "u") @@
    ("V" :> "v") @@
    ("W" :> "w") @@
    ("X" :> "x") @@
    ("Y" :> "y") @@
    ("Z" :> "z")

\* the upper-case letters of U+00C0..U+00DE lower-cased: str.lower() maps
\* them as well
Latin1ToLower ==
    ("À" :> "à") @@
    ("Á" :> "á") @@
    ("Â" :> "â") @@
    ("Ã" :> "ã") @@
    ("Ä" :> "ä") @@
    ("Å" :> "å") @@
    ("Æ" :> "æ") @@
    ("Ç" :> "ç") @@
    ("È" :> "è") @@
    ("É" :> "é") @@
    ("Ê" :> "ê") @@
    ("Ë" :> "ë") @@
    ("Ì" :> "ì") @@
    ("Í" :> "í") @@
    ("Î" :> "î") @@
    ("Ï" :> "ï") @@
    ("Ð" :> "ð") @@
    ("Ñ" :> "ñ") @@
    ("Ò" :> "ò") @@
    ("Ó" :> "ó") @@
    ("Ô" :> "ô") @@
    ("Õ" :> "õ") @@
    ("Ö" :> "ö") @@
    ("Ø" :> "ø") @@
    ("Ù" :> "ù") @@
    ("Ú" :> "ú") @@
    ("Û" :> "û") @@
    ("Ü" :> "ü") @@
    ("Ý" :> "ý") @@
    ("Þ" :> "þ")

\* str.lower() on one character
LowerChar(c) ==
    IF c \in DOMAIN UpperToLower THEN UpperToLower[c]
    ELSE IF c \in DOMAIN Latin1ToLower THEN Latin1ToLower[c]
    ELSE c

\* q = (qtext or "").lower(): None and "" are both the empty sequence
Lower(s) == [i \in 1..Len(s) |-> LowerChar(s[i])]

\* translate(s, 'ABC...Z', 'abc...z') of the XPath queries: the letters A-Z only
Translate(s) ==
    [i \in 1..Len(s) |-> IF s[i] \in DOMAIN UpperToLower THEN UpperToLower[s[i]] ELSE s[i]]

\* k in q: k occurs in q as a substring
Contains(q, k) == \E i \in 1..(Len(q) - Len(k) + 1) : SubSeq(q, i, i + Len(k) - 1) = k

\* lines 43-49
QUESTION_KEYWORDS ==
    [yesno |-> {<<"s", "u", "p", "p", "o", "r", "t">>,
                <<"a", "g", "r", "e", "e">>,
                <<"d", "o", " ", "y", "o", "u">>,
                <<"s", "h", "o", "u", "l", "d">>,
                <<"i", "s", " ", "i", "t">>,
                <<"y", "e", "s", "/", "n", "o">>,
                <<"w", "o", "u", "l", "d", " ", "y", "o", "u">>},
     numbers |-> {<<"a", "g", "e">>,
                  <<"y", "e", "a", "r", "s">>,
                  <<"h", "o", "w", " ", "m", "a", "n", "y">>,
                  <<"n", "u", "m", "b", "e", "r", " ", "o", "f">>,
                  <<"h", "o", "w", " ", "o", "l", "d">>},
     favorite |-> {<<"f", "a", "v", "o", "r", "i", "t", "e">>,
                   <<"p", "r", "e", "f", "e", "r">>,
                   <<"w", "h", "i", "c", "h", " ", "d", "o", " ", "y", "o", "u", " ", "p", "r", "e", "f", "e", "r">>},
     opinion |-> {<<"t", "h", "o", "u", "g", "h", "t", "s">>,
                  <<"c", "o", "m", "m", "e", "n", "t", "s">>,
                  <<"s", "u", "g", "g", "e", "s", "t", "i", "o", "n", "s">>,
                  <<"o", "p", "i", "n", "i", "o", "n">>,
                  <<"i", "d", "e", "a", "s">>,
                  <<"w", "h", "y">>,
                  <<"e", "x", "p", "l", "a", "i", "n">>},
     location |-> {<<"c", "i", "t", "y">>,
                   <<"s", "t", "a", "t", "e">>,
                   <<"c", "o", "u", "n", "t", "r", "y">>,
                   <<"w", "h", "e", "r", "e", " ", "d", "o", " ", "y", "o", "u", " ", "l", "i", "v", "e">>,
                   <<"r", "e", "s", "i", "d", "e", "n", "c", "e">>}]

\* any(k in q for k in QUESTION_KEYWORDS[kind])
HasCue(q, kind) == \E k \in QUESTION_KEYWORDS[kind] : Contains(q, k)

\* line 35
PRESET_WORDS ==
    <<<<"Y", "e", "s">>,
      <<"N", "o">>,
      <<"M", "a", "y", "b", "e">>,
      <<"S", "u", "r", "e">>,
      <<"I", " ", "a", "g", "r", "e", "e">>>>

\* lines 36-41
TEXTAREA_SENTENCES ==
    <<<<"I", " ", "t", "h", "i", "n", "k", " ", "t", "h", "a", "t", "'", "s", " ", "r", "e", "a", "s", "o", "n", "a", "b", "l", "e", " ", "a", "n", "d", " ", "I", "'", "d", " ", "c", "o", "n", "s", "i", "d", "e", "r", " ", "i", "t", ".">>,
      <<"N", "o", " ", "a", "d", "d", "i", "t", "i", "o", "n", "a", "l", " ", "c", "o", "m", "m", "e", "n", "t", "s", ".">>,
      <<"I", " ", "d", "o", "n", "'", "t", " ", "h", "a", "v", "e", " ", "a", " ", "s", "t", "r", "o", "n", "g", " ", "p", "r", "e", "f", "e", "r", "e", "n", "c", "e", ".">>,
      <<"T", "h", "i", "s", " ", "s", "e", "e", "m", "s", " ", "o", "k", "a", "y", " ", "t", "o", " ", "m", "e", ".">>>>

Yes == <<"Y", "e", "s">>
No == <<"N", "o">>

\* the response profiles configure() is called with: two of the control panel's
\* (531-532) and one a caller supplies with nothing in its pools
Profiles ==
    [Default |-> [text |-> PRESET_WORDS, textarea |-> TEXTAREA_SENTENCES],
     Conservative |-> [text |-> <<No, <<"M", "a", "y", "b", "e">>>>,
                       textarea |-> <<<<"N", "o", " ", "c", "o", "m", "m", "e", "n", "t", ".">>>>],
     Empty |-> [text |-> <<>>, textarea |-> <<>>]]

\* self.profile.get(key, default)
Pool(prof, key, default) == IF key \in DOMAIN prof THEN prof[key] ELSE default

\* the numeric-cue answers checked ahead of the yes/no cues
Strategy_numericFirst(q, options) ==
    IF HasCue(q, "numbers") THEN "Numeric"
    ELSE IF HasCue(q, "yesno") THEN "YesNo"
    ELSE IF options # <<>> /\ HasCue(q, "favorite") THEN "Favorite"
    ELSE IF HasCue(q, "opinion") THEN "Opinion"
    ELSE "Freeform"

\* the branch intelligent_answer takes for the lower-cased text q (269-287);
\* `options and ...` is false for None and for an empty list alike
Strategy(q, options) ==
    IF HasCue(q, "yesno") THEN "YesNo"
    ELSE IF HasCue(q, "numbers") THEN "Numeric"
    ELSE IF options # <<>> /\ HasCue(q, "favorite") THEN "Favorite"
    ELSE IF HasCue(q, "opinion") THEN "Opinion"
    ELSE "Freeform"

\* random.randint(18, 65), line 273
MinAge == 18
MaxAge == 65

\* one number more than randint(18, 65) returns
AgeRange_offByOne == MinAge..(MaxAge + 1)

AgeRange == MinAge..MaxAge

Digits == <<"0", "1", "2", "3", "4", "5", "6", "7", "8", "9">>

\* str(n) for n >= 0
RECURSIVE DecStr(_)
DecStr(n) == IF n < 10 THEN <<Digits[n + 1]>>
             ELSE Append(DecStr(n \div 10), Digits[(n % 10) + 1])

\* random.choice(pool): one of its entries, IndexError on an empty pool
Choice(pool) ==
    IF pool = <<>> THEN {<<"raise", <<>>>>}
    ELSE {<<"return", pool[i]>> : i \in DOMAIN pool}

\* intelligent_answer(qtext, options, qtype): every outcome it can have,
\* <<"return", answer>> or <<"raise", <<>>>> (qtype is read on no path)
intelligent_answer(qtext, options, prof) ==
    LET strategy == Strategy(Lower(qtext), options) IN
    CASE strategy = "YesNo" -> {<<"return", Yes>>, <<"return", No>>}
      [] strategy = "Numeric" -> {<<"return", DecStr(n)>> : n \in AgeRange}
      [] strategy = "Favorite" -> Choice(options)
      [] strategy = "Opinion" ->
             Choice(Pool(prof, "textarea", TEXTAREA_SENTENCES))
             \cup Choice(Pool(prof, "text", PRESET_WORDS))
      [] OTHER ->
             IF options # <<>> THEN Choice(options)
             ELSE Choice(Pool(prof, "text", PRESET_WORDS))

\* the phrases question texts are made of: a yes/no cue, a numeric cue, a
\* favorite cue, an opinion cue, a word that holds a cue inside it and one with none
Phrases ==
    {<<"D", "o", " ", "y", "o", "u", " ">>,
     <<"A", "G", "E", " ">>,
     <<"P", "r", "e", "f", "e", "r", " ">>,
     <<"W", "h", "y", " ">>,
     <<"S", "t", "a", "g", "e", " ">>,
     <<"N", "a", "m", "e", " ">>}

RECURSIVE Texts(_)
Texts(n) ==
    IF n = 0 THEN {<<>>}
    ELSE Texts(n - 1) \cup {x \o ph : x \in Texts(n - 1), ph \in Phrases}

OptionLists == {<<>>, <<Yes, No>>, <<<<"R", "e", "d">>>>}

NoOutcome == <<"pending", <<>>>>

botVars == <<ctlVars, wrkVars, calls, stale, afterPause>>

\* a call of intelligent_answer about to be made
InitAnswer ==
    /\ BotInit
    /\ call \in [q : Texts(MaxPhrases), options : OptionLists,
                 profile : DOMAIN Profiles, out : {NoOutcome}]
    /\ NoHandler

\* the call returns or raises
AnswerCall ==
    /\ call.out = NoOutcome
    /\ \E o \in intelligent_answer(call.q, call.options, Profiles[call.profile]) :
          call' = [call EXCEPT !.out = o]
    /\ UNCHANGED <<botVars, page, frame, commits>>

NextAnswer == AnswerCall

\* intelligent_answer on every question text, option list and profile of the bounds
SpecAnswer == InitAnswer /\ [][NextAnswer]_vars

\* ================================================= one handler on one page
\* The handlers below are followed control by control on a page whose controls
\* are data; pause() and start() go on around them.

\* bounds: controls of one kind on the page, the <div>s they sit in, and the
\* passes made over the page
MaxItems == 3
MaxDivs == 2
MaxPasses == 2

\* the nearest <div> ancestor of a control: 0 when it has none
Divs == 0..MaxDivs

\* `anc` before its first assignment
Unbound == -1

\* the run state once worker 1 has issued the discovery query of handler h in
\* the pass under study (as in Spec after Start, CreateDriver and FindIssue)
HandlerEntered(h) ==
    /\ alive = TRUE
    /\ running = TRUE
    /\ driver = "open"
    /\ thread = 1
    /\ delay_min = 0
    /\ delay_max = MaxDelay
    /\ cpc = "idle"
    /\ carg = <<>>
    /\ wpc = [t \in Threads |-> IF t = 1 THEN "find_call" ELSE "none"]
    /\ wh = [t \in Threads |-> IF t = 1 THEN h ELSE 0]
    /\ todo = [t \in Threads |-> 0]
    /\ sel = [t \in Threads |-> -1]
    /\ slices = [t \in Threads |-> 0]
    /\ rmin = [t \in Threads |-> -1]
    /\ rmax = [t \in Threads |-> -1]
    /\ calls = {1}
    /\ stale = {}
    /\ passLog = [t \in Threads |-> IF t = 1 THEN SubSeq(HandlerOrder, 1, h) ELSE <<>>]
    /\ why = [t \in Threads |-> "none"]
    /\ afterPause = [t \in Threads |-> -1]

\* what the worker and the controller do not touch while a handler is followed
HandlerFrame ==
    UNCHANGED <<alive, driver, thread, delay_min, delay_max, profile, cpc, carg,
                wrkVars, calls, stale, afterPause, call>>

\* cid: the identity of the nearest <div> (its id, data-interceptor-id or hash),
\* or hash(element) when the ancestor query raised
Cid(controls, j) ==
    IF controls[j].div # 0 THEN <<"div", controls[j].div>> ELSE <<"el", j>>

\* `anc` after the try of 298-302 / 338-342 for control j
AncAfter(controls, j, anc) == IF controls[j].div # 0 THEN controls[j].div ELSE anc

\* anc.find_elements(...) (307, 347): the controls under that <div>, at any
\* depth; [control] when `anc` is unbound (NameError, caught at 308 / 348)
GroupOf(controls, j, anc) ==
    IF anc = Unbound THEN {j} ELSE {g \in DOMAIN controls : anc \in controls[g].within}

\* the ways the <div>s of a page lie in one another: for each <div> the <div>s
\* around it, itself included
Nestings ==
    {W \in [1..MaxDivs -> SUBSET (1..MaxDivs)] :
        \A d \in 1..MaxDivs :
            /\ d \in W[d]
            /\ \A e \in W[d] : W[e] \subseteq W[d] /\ (e # d => d \notin W[e])
            /\ \A e1, e2 \in W[d] : W[e1] \subseteq W[e2] \/ W[e2] \subseteq W[e1]}

\* where n controls can lie in a document: for each, in document order, its
\* nearest <div> (0: none) and the <div>s around it; a <div> is one stretch of
\* the document, and it is on the page when a control has it as nearest <div>
Layouts(n) ==
    {l \in {[j \in 1..n |-> [div |-> ds[j],
                              within |-> IF ds[j] = 0 THEN {} ELSE W[ds[j]]]] :
                ds \in [1..n -> Divs], W \in Nestings} :
        /\ \A j \in 1..n : l[j].within \subseteq {l[g].div : g \in 1..n}
        /\ \A i, j, k \in 1..n :
              (i < j /\ j < k) => (l[i].within \cap l[k].within) \subseteq l[j].within}

\* random.sample(candidates, k): k distinct candidates in some order
Samples(S, k) ==
    {sq \in [1..k -> S] : \A a, b \in 1..k : sq[a] = sq[b] => a = b}

\* ---------------------------------------------- _answer_checkboxes (330-362)
BoxPages ==
    UNION {{[j \in 1..n |-> [div |-> l[j].div, within |-> l[j].within,
                             selected |-> sl[j]]] :
               l \in Layouts(n), sl \in [1..n -> BOOLEAN]} : n \in 0..MaxItems}

BoxFrame(pass) ==
    [pc |-> "for", i |-> 0, seen |-> {}, anc |-> Unbound, to_select |-> <<>>,
     n |-> 0, k |-> 0, pass |-> pass, slices |-> 0]

InitBoxes ==
    /\ HandlerEntered(2)
    /\ profile = "Default"
    /\ call = <<>>
    /\ page \in BoxPages
    /\ frame = BoxFrame(1)
    /\ commits = {}

\* every box of the group taken as a candidate
Candidates_all(controls, group) == group

\* candidates = [g for g in group if not g.is_selected()] (350)
Candidates(controls, group) == {g \in group : ~controls[g].selected}

\* one turn of `for b in boxes` up to the inner loop (335-354)
BoxesFor ==
    /\ frame # <<>> /\ frame.pc = "for"
    /\ IF frame.i = Len(page) \/ ~running
       THEN /\ frame' = [frame EXCEPT !.pc = "done"]
            /\ running' = running
       ELSE LET j == frame.i + 1
                anc == AncAfter(page, j, frame.anc)
                cid == Cid(page, j)
                cands == Candidates(page, GroupOf(page, j, anc))
                n == Cardinality(cands)
            IN  IF cid \in frame.seen
                THEN /\ frame' = [frame EXCEPT !.i = j, !.anc = anc]
                     /\ running' = running
                ELSE IF n = 0
                THEN /\ frame' = [frame EXCEPT !.i = j, !.anc = anc, !.seen = @ \cup {cid},
                                               !.n = 0, !.k = 0]
                     /\ running' = running
                ELSE IF PickCounts(n) = {}
                THEN \* ValueError out of randint: caught at 504-506
                     /\ frame' = [frame EXCEPT !.i = j, !.anc = anc, !.seen = @ \cup {cid},
                                               !.n = n, !.k = 0, !.pc = "raised"]
                     /\ running' = FALSE
                ELSE /\ \E k \in PickCounts(n) : \E ts \in Samples(cands, k) :
                           frame' = [frame EXCEPT !.i = j, !.anc = anc,
                                                  !.seen = @ \cup {cid}, !.n = n, !.k = k,
                                                  !.to_select = ts, !.pc = "inner"]
                     /\ running' = running
    /\ UNCHANGED <<page, commits>>
    /\ HandlerFrame

\* element.click() on a checkbox toggles it
ToggleBox(controls, b) == [controls EXCEPT ![b].selected = ~@]

\* head of `for s in to_select` (355-358): the running check; past it the click
\* of line 358 is issued
BoxesInner ==
    /\ frame # <<>> /\ frame.pc = "inner"
    /\ frame' = [frame EXCEPT
                    !.pc = IF frame.to_select = <<>> THEN "for"
                           ELSE IF ~running THEN "done" ELSE "click",
                    !.to_select = IF frame.to_select # <<>> /\ ~running THEN <<>> ELSE @]
    /\ UNCHANGED <<running, page, commits>>
    /\ HandlerFrame

\* the click of line 358 takes effect, or fails at every stage; after a click
\* that went through the label is read for the log line (359), and an exception
\* of s.get_attribute leaves the handler: caught at 504-506
BoxesClick ==
    /\ frame # <<>> /\ frame.pc = "click"
    /\ LET b == Head(frame.to_select) IN
       \E clicked, raised \in BOOLEAN :
          /\ raised => clicked
          /\ IF clicked
             THEN /\ page' = ToggleBox(page, b)
                  /\ commits' = commits \cup
                         {[pass |-> frame.pass, control |-> b,
                           was |-> page[b].selected, n |-> frame.n, k |-> frame.k]}
             ELSE UNCHANGED <<page, commits>>
          /\ frame' = [frame EXCEPT !.pc = IF raised THEN "raised" ELSE "sleep",
                                    !.to_select = Tail(@)]
          /\ running' = IF raised THEN FALSE ELSE running
    /\ HandlerFrame

\* _interruptible_sleep is entered (361, 179-181): the total is drawn from the
\* delay window; running is not read
BoxesSleep ==
    /\ frame # <<>> /\ frame.pc = "sleep"
    /\ \E total \in RandDelay(delay_min, delay_max) :
          /\ Turns(total) <= MaxSlices
          /\ frame' = [frame EXCEPT !.pc = "slice", !.slices = Turns(total)]
    /\ UNCHANGED <<running, page, commits>>
    /\ HandlerFrame

\* one turn of `while slept < total` (182-186): running is read again before
\* every slice; when the sleep returns, line 362 returns on False and the inner
\* loop goes on on True
BoxesSlice ==
    /\ frame # <<>> /\ frame.pc = "slice"
    /\ frame' = CASE SliceNext(running, frame.slices) = "sleep" ->
                      [frame EXCEPT !.slices = @ - 1]
                  [] SliceNext(running, frame.slices) = "False" ->
                      [frame EXCEPT !.pc = "done", !.slices = 0, !.to_select = <<>>]
                  [] OTHER -> [frame EXCEPT !.pc = "inner"]
    /\ UNCHANGED <<running, page, commits>>
    /\ HandlerFrame

\* the handler has returned or raised, the loop is running and a pass is left
PassOver ==
    /\ frame # <<>> /\ frame.pc \in {"done", "raised"}
    /\ running
    /\ frame.pass < MaxPasses

\* _answer_checkboxes is entered again in a later pass over the same page
BoxesAgain ==
    /\ PassOver
    /\ frame' = BoxFrame(frame.pass + 1)
    /\ UNCHANGED <<running, page, commits>>
    /\ HandlerFrame

NextBoxes ==
    \/ BoxesFor
    \/ BoxesInner
    \/ BoxesClick
    \/ BoxesSleep
    \/ BoxesSlice
    \/ BoxesAgain
    \/ Pause
    \/ Start

\* _answer_checkboxes over every page of the bounds, paused and resumed at any time
SpecBoxes == InitBoxes /\ [][NextBoxes]_vars

\* str.strip() with no argument removes the whitespace at both ends: the
\* characters for which str.isspace() is true, which up to U+00FF are U+0009 to
\* U+000D, U+001C to U+001F, the space, U+0085 and U+00A0
Whitespace == {"\t", "\n", "", "\f", "\r", "", "", "", "", " ", "", " "}

RECURSIVE LStrip(_)
LStrip(s) == IF s # <<>> /\ Head(s) \in Whitespace THEN LStrip(Tail(s)) ELSE s

RECURSIVE RStrip(_)
RStrip(s) ==
    IF s # <<>> /\ s[Len(s)] \in Whitespace THEN RStrip(SubSeq(s, 1, Len(s) - 1)) ELSE s

Strip(s) == RStrip(LStrip(s))

\* ------------------------------------------------- _answer_radios (290-328)
\* the name attribute of a radio input: the radios of one name are one question,
\* and the browser keeps at most one of them selected
Names == {"q1", "q2"}

\* what _get_label_text() returns for the radios of each question: the <label>
\* that precedes the question's inputs (229-235)
QuestionLabel ==
    [q1 |-> <<"D", "o", " ", "y", "o", "u", " ", "s", "u", "p", "p", "o", "r", "t", " ", "X", "?">>,
     q2 |-> <<"D", "o", " ", "y", "o", "u", " ", "a", "g", "r", "e", "e", "?">>]

\* the value attributes of each question's radios, in document order
OptionValues ==
    [q1 |-> <<Yes, No>>,
     q2 |-> <<<<"Y", "E", "S">>, <<"N", "O">>>>]

\* the token put in opts_text for an option with no value and no label (315)
Placeholder == <<"<", "o", "p", "t", ">">>

\* txt = (o.get_attribute("value") or o.get_attribute("aria-label") or
\* self._get_label_text(o) or "").strip(); txt or "<opt>" (314-315).  The
\* option text of the page is the value attribute of a radio input and the
\* aria-label of an element of role radio; an option past those the question
\* lists has neither, and _get_label_text finds the question's <label> before it
OptText(controls, j) ==
    LET nth == Cardinality({g \in 1..j : controls[g].name = controls[j].name})
        values == OptionValues[controls[j].name]
        listed == IF nth <= Len(values) THEN values[nth] ELSE <<>>
        value == IF controls[j].input THEN listed ELSE <<>>
        aria == IF controls[j].input THEN <<>> ELSE listed
        txt == Strip(IF value # <<>> THEN value
                     ELSE IF aria # <<>> THEN aria
                     ELSE QuestionLabel[controls[j].name])
    IN  IF txt # <<>> THEN txt ELSE Placeholder

\* the elements of a set of controls in document order
RECURSIVE InOrder(_)
InOrder(S) ==
    IF S = {} THEN <<>>
    ELSE LET first == CHOOSE x \in S : \A y \in S : x <= y
         IN  <<first>> \o InOrder(S \ {first})

\* the <div>s of a page are numbered as the document reaches them
DocOrdered(p) ==
    \A j \in DOMAIN p :
        p[j].div > 1 => \E g \in 1..(j - 1) : p[g].div = p[j].div - 1

\* the pages: radio inputs (input: an <input type="radio">, not an element of
\* role radio), each under its nearest <div> (0: none), none selected when the
\* page is loaded
RadioPages ==
    UNION {{[j \in 1..n |-> [div |-> l[j].div, within |-> l[j].within,
                             name |-> nm[j], selected |-> FALSE, input |-> TRUE]] :
               l \in {x \in Layouts(n) : DocOrdered(x)}, nm \in [1..n -> Names]} :
           n \in 0..MaxItems}

\* the pages of one question whose radios are inputs or elements of role radio
RolePages ==
    UNION {{[j \in 1..n |-> [div |-> l[j].div, within |-> l[j].within,
                             name |-> "q1", selected |-> FALSE, input |-> inp[j]]] :
               l \in {x \in Layouts(n) : DocOrdered(x)}, inp \in [1..n -> BOOLEAN]} :
           n \in 0..MaxItems}

\* opts (306-309): the radio inputs under `anc`, which the selector of line 307
\* restricts to input[type='radio']; [r] when `anc` is unbound
Opts(controls, j, anc) ==
    IF anc = Unbound THEN {j}
    ELSE {g \in GroupOf(controls, j, anc) : controls[g].input}

\* the locals of _answer_radios in pass `pass`; clicked: whether an earlier pass
\* over the page clicked a radio
RadioFrame(pass, clicked) ==
    [pc |-> "for", i |-> 0, seen |-> {}, anc |-> Unbound, pass |-> pass,
     clicked |-> clicked, chosen |-> 0, pick_text |-> <<>>, slices |-> 0]

InitRadios ==
    /\ HandlerEntered(1)
    /\ profile = "Default"
    /\ call = <<>>
    /\ page \in RadioPages
    /\ frame = RadioFrame(1, FALSE)
    /\ commits = {}

InitRoleRadios ==
    /\ HandlerEntered(1)
    /\ profile = "Default"
    /\ call = <<>>
    /\ page \in RolePages
    /\ frame = RadioFrame(1, FALSE)
    /\ commits = {}

\* any(o.is_selected() for o in opts) (310)
GroupAnswered(controls, opts) ==
    \E i \in DOMAIN opts : controls[opts[i]].selected

\* chosen (318-324): the first option whose text equals the answer with both
\* lower-cased, else random.choice(opts): none (IndexError) when opts is empty
Chosen(controls, opts, pick_text) ==
    LET hits == {i \in DOMAIN opts :
                    Lower(OptText(controls, opts[i])) = Lower(pick_text)}
    IN  IF hits # {}
        THEN {opts[CHOOSE i \in hits : \A h \in hits : i <= h]}
        ELSE {opts[i] : i \in DOMAIN opts}

\* element.click() on a radio input selects it and clears the others of its
\* name; on an element of role radio (no input) it changes the selection of no
\* element, and is_selected() stays false for it
SelectRadio(controls, b) ==
    IF ~controls[b].input THEN controls
    ELSE [g \in DOMAIN controls |->
             IF g = b THEN [controls[g] EXCEPT !.selected = TRUE]
             ELSE IF controls[g].name = controls[b].name
             THEN [controls[g] EXCEPT !.selected = FALSE]
             ELSE controls[g]]

\* one turn of `for r in radios` up to the click (295-324): the running check,
\* the grouping, the answer and the option chosen for it
RadiosFor ==
    /\ frame # <<>> /\ frame.pc = "for"
    /\ IF frame.i = Len(page) \/ ~running
       THEN /\ frame' = [frame EXCEPT !.pc = "done"]
            /\ running' = running
       ELSE LET j == frame.i + 1
                anc == AncAfter(page, j, frame.anc)
                cid == Cid(page, j)
                opts == InOrder(Opts(page, j, anc))
                opts_text == [i \in DOMAIN opts |-> OptText(page, opts[i])]
                question == QuestionLabel[page[j].name]
            IN  IF cid \in frame.seen
                THEN /\ frame' = [frame EXCEPT !.i = j, !.anc = anc]
                     /\ running' = running
                ELSE IF GroupAnswered(page, opts)
                THEN /\ frame' = [frame EXCEPT !.i = j, !.anc = anc, !.seen = @ \cup {cid}]
                     /\ running' = running
                ELSE \E out \in intelligent_answer(question, opts_text, Profiles[profile]) :
                        IF out[1] = "raise" \/ Chosen(page, opts, out[2]) = {}
                        THEN \* out of the handler: caught at 504-506
                             /\ frame' = [frame EXCEPT !.i = j, !.anc = anc,
                                                       !.seen = @ \cup {cid}, !.pc = "raised"]
                             /\ running' = FALSE
                        ELSE /\ \E chosen \in Chosen(page, opts, out[2]) :
                                   frame' = [frame EXCEPT !.i = j, !.anc = anc,
                                                          !.seen = @ \cup {cid},
                                                          !.chosen = chosen,
                                                          !.pick_text = out[2],
                                                          !.pc = "click"]
                             /\ running' = running
    /\ UNCHANGED <<page, commits>>
    /\ HandlerFrame

\* the click of line 325 takes effect, or fails at every stage
RadiosClick ==
    /\ frame # <<>> /\ frame.pc = "click"
    /\ \E clicked \in BOOLEAN :
          IF clicked
          THEN /\ page' = SelectRadio(page, frame.chosen)
               /\ commits' = commits \cup
                      {[pass |-> frame.pass, control |-> frame.chosen,
                        turn |-> frame.i, group |-> Opts(page, frame.i, frame.anc),
                        selected |-> {g \in DOMAIN page : page[g].selected},
                        question |-> QuestionLabel[page[frame.i].name],
                        pick_text |-> frame.pick_text]}
          ELSE UNCHANGED <<page, commits>>
    /\ frame' = [frame EXCEPT !.pc = "sleep", !.chosen = 0, !.pick_text = <<>>]
    /\ running' = running
    /\ HandlerFrame

\* _interruptible_sleep is entered (327, 179-181): the total is drawn from the
\* delay window; running is not read
RadiosSleep ==
    /\ frame # <<>> /\ frame.pc = "sleep"
    /\ \E total \in RandDelay(delay_min, delay_max) :
          /\ Turns(total) <= MaxSlices
          /\ frame' = [frame EXCEPT !.pc = "slice", !.slices = Turns(total)]
    /\ UNCHANGED <<running, page, commits>>
    /\ HandlerFrame

\* one turn of `while slept < total` (182-186): running is read again before
\* every slice; when the sleep returns, line 328 returns on False and the loop
\* over the radios goes on on True
RadiosSlice ==
    /\ frame # <<>> /\ frame.pc = "slice"
    /\ frame' = CASE SliceNext(running, frame.slices) = "sleep" ->
                      [frame EXCEPT !.slices = @ - 1]
                  [] SliceNext(running, frame.slices) = "False" ->
                      [frame EXCEPT !.pc = "done", !.slices = 0]
                  [] OTHER -> [frame EXCEPT !.pc = "for"]
    /\ UNCHANGED <<running, page, commits>>
    /\ HandlerFrame

\* _answer_radios is entered again in a later pass over the same page; commits
\* holds the clicks of the pass under way
RadiosAgain ==
    /\ PassOver
    /\ frame' = RadioFrame(frame.pass + 1, frame.clicked \/ commits # {})
    /\ commits' = {}
    /\ UNCHANGED <<running, page>>
    /\ HandlerFrame

NextRadios ==
    \/ RadiosFor
    \/ RadiosClick
    \/ RadiosSleep
    \/ RadiosSlice
    \/ RadiosAgain
    \/ Pause
    \/ Start

\* _answer_radios over every page of the bounds, paused and resumed at any time
SpecRadios == InitRadios /\ [][NextRadios]_vars

\* the same over the pages with elements of role radio
SpecRoleRadios == InitRoleRadios /\ [][NextRadios]_vars


\* ------------------------- _answer_texts, _answer_textareas (401-421, 423-443)
\* the handlers of the two kinds of text field, as numbered in HandlerOrder
TextHandlers == {3, 4}

\* the word the handler uses for a field with no label (410, 432)
Unlabelled(h) == IF h = 3 THEN <<"t", "e", "x", "t">> ELSE <<"t", "e", "x", "t", "a", "r", "e", "a">>

\* what _get_label_text() returns for a field: the age question, asked once on
\* a page, or nothing
AgeQuestion == <<"H", "o", "w", " ", "o", "l", "d", " ", "a", "r", "e", " ", "y", "o", "u", "?">>
FieldLabels == {<<>>, AgeQuestion}

\* what a field holds when the page is loaded: nothing, a blank, text
FieldValues == {<<>>, <<" ">>, <<"4", "2", " ">>}

\* bound: text fields of one kind on the page
MaxFields == 2

\* the pages: fields with what they hold (content), their label, what they
\* held when the page was loaded, and whether the field is an <input> or
\* <textarea> (input) or an element of role textbox, which the selector of
\* line 402 finds as well and whose text is its content; a page has one such
\* element at most, and it has no label
FieldPages ==
    {p \in UNION {[1..n -> [content : FieldValues, label : FieldLabels,
                            loaded : FieldValues, input : BOOLEAN]] :
                     n \in 0..MaxFields} :
        /\ \A j \in DOMAIN p : p[j].loaded = p[j].content
        /\ \A a, b \in DOMAIN p : (~p[a].input /\ ~p[b].input) => a = b
        /\ \A j \in DOMAIN p : ~p[j].input => p[j].label = <<>>
        /\ \A a, b \in DOMAIN p :
              (p[a].label = AgeQuestion /\ p[b].label = AgeQuestion) => a = b}

\* the locals of the handler in pass `pass`; wrote: whether an earlier pass over
\* the page wrote to a field
TextFrame(pass, wrote) ==
    [pc |-> "for", i |-> 0, pass |-> pass, wrote |-> wrote, ans |-> <<>>, was |-> <<>>,
     slices |-> 0]

InitTexts ==
    /\ \E h \in TextHandlers : HandlerEntered(h)
    /\ profile \in {"Conservative", "Empty"}
    /\ call = <<>>
    /\ page \in FieldPages
    /\ wh[1] = 4 => \A j \in DOMAIN page : page[j].input
    /\ frame = TextFrame(1, FALSE)
    /\ commits = {}

\* inp.get_attribute("value") or "" (407, 429): what an <input> or a <textarea>
\* holds; an element of role textbox has no value, whatever its text
ValueOf(field) == IF field.input THEN field.content ELSE <<>>

\* cur = (inp.get_attribute("value") or "").strip(); if cur: continue (407-409)
Filled(value) == Strip(value) # <<>>

\* the question asked for field j by handler h (410, 432)
Question(controls, j, h) ==
    IF controls[j].label # <<>> THEN controls[j].label ELSE Unlabelled(h)

\* one turn of `for inp in inputs` up to clear() (403-411, 425-433): the running
\* check, the skip of a filled field (no sleep after it: continue) and the
\* answer; an exception of intelligent_answer is caught and logged (418, 440)
TextsFor ==
    /\ frame # <<>> /\ frame.pc = "for"
    /\ IF frame.i = Len(page) \/ ~running
       THEN frame' = [frame EXCEPT !.pc = "done"]
       ELSE LET j == frame.i + 1 IN
            IF Filled(ValueOf(page[j]))
            THEN frame' = [frame EXCEPT !.i = j]
            ELSE \E out \in intelligent_answer(Question(page, j, wh[1]), <<>>,
                                               Profiles[profile]) :
                    frame' = IF out[1] = "raise"
                             THEN [frame EXCEPT !.i = j, !.pc = "sleep"]
                             ELSE [frame EXCEPT !.i = j, !.pc = "clear",
                                                !.ans = out[2], !.was = page[j].content]
    /\ UNCHANGED <<running, page, commits>>
    /\ HandlerFrame

\* inp.clear() (412-415): the field is emptied, or the call raises and is
\* passed over
TextsClear ==
    /\ frame # <<>> /\ frame.pc = "clear"
    /\ \E cleared \in BOOLEAN :
          page' = IF cleared THEN [page EXCEPT ![frame.i].content = <<>>] ELSE page
    /\ frame' = [frame EXCEPT !.pc = "send"]
    /\ UNCHANGED <<running, commits>>
    /\ HandlerFrame

\* inp.send_keys(ans) (416-417): the answer is typed after what the field
\* holds, or the call raises and is logged (418, 440)
TextsSend ==
    /\ frame # <<>> /\ frame.pc = "send"
    /\ \E sent \in BOOLEAN :
          IF sent
          THEN /\ page' = [page EXCEPT ![frame.i].content = @ \o frame.ans]
               /\ commits' = commits \cup
                      {[pass |-> frame.pass, control |-> frame.i, was |-> frame.was,
                        question |-> Question(page, frame.i, wh[1]), ans |-> frame.ans]}
          ELSE UNCHANGED <<page, commits>>
    /\ frame' = [frame EXCEPT !.pc = "sleep", !.ans = <<>>, !.was = <<>>]
    /\ running' = running
    /\ HandlerFrame

\* _interruptible_sleep is entered (420, 442; 179-181): the total is drawn from
\* the delay window; running is not read
TextsSleep ==
    /\ frame # <<>> /\ frame.pc = "sleep"
    /\ \E total \in RandDelay(delay_min, delay_max) :
          /\ Turns(total) <= MaxSlices
          /\ frame' = [frame EXCEPT !.pc = "slice", !.slices = Turns(total)]
    /\ UNCHANGED <<running, page, commits>>
    /\ HandlerFrame

\* one turn of `while slept < total` (182-186): running is read again before
\* every slice; when the sleep returns, line 421 / 443 returns on False and the
\* loop over the fields goes on on True
TextsSlice ==
    /\ frame # <<>> /\ frame.pc = "slice"
    /\ frame' = CASE SliceNext(running, frame.slices) = "sleep" ->
                      [frame EXCEPT !.slices = @ - 1]
                  [] SliceNext(running, frame.slices) = "False" ->
                      [frame EXCEPT !.pc = "done", !.slices = 0]
                  [] OTHER -> [frame EXCEPT !.pc = "for"]
    /\ UNCHANGED <<running, page, commits>>
    /\ HandlerFrame

\* the handler is entered again in a later pass over the same page; commits
\* holds the writes of the pass under way
TextsAgain ==
    /\ PassOver
    /\ frame' = TextFrame(frame.pass + 1, frame.wrote \/ commits # {})
    /\ commits' = {}
    /\ UNCHANGED <<running, page>>
    /\ HandlerFrame

NextTexts ==
    \/ TextsFor
    \/ TextsClear
    \/ TextsSend
    \/ TextsSleep
    \/ TextsSlice
    \/ TextsAgain
    \/ Pause
    \/ Start

\* the text handlers over every page of the bounds, paused and resumed at any time
SpecTexts == InitTexts /\ [][NextTexts]_vars


\* ---------------------------------------------------- _safe_click (189-219)
\* A call of _safe_click is followed statement by statement while
\* stop_and_close runs on the controlling thread: self.driver is read again at
\* lines 198, 200, 205 and 211.

\* the stages of _safe_click in the order of its text: el.click(), the
\* ActionChains move and click, scrollIntoView, the dispatched mouse events
Ladder == <<"direct", "pointer", "synthetic">>

\* the pointer stage with no except clause around it
Suppressed_pointerBare == {"direct", "scroll", "synthetic"}

\* the statements whose exception an except clause of _safe_click catches
\* (195, 201, 207, 217)
Suppressed == {"direct", "pointer", "scroll", "synthetic"}

\* what a click comes to: result "True", "False" or "raise", the stages it
\* tried in order, each with whether it went through, and whether "Click
\* failed." was logged
ClickResult(result, tried, logged) ==
    [result |-> result, tried |-> tried, logged |-> logged]

\* a statement that failed: caught, or out of _safe_click
Caught(stage) == stage \in Suppressed

Pending == ClickResult("pending", <<>>, FALSE)

\* a browser call made now goes through: the session is open and the call is
\* one that works on it (`works`); on a closed session, or through self.driver
\* when it is None, it raises
GoesThrough(works) == driver = "open" /\ works

\* a call of _safe_click about to be made by the worker of a running loop:
\* el, whether ActionChains was imported, which of its statements work on the
\* open session; position pc, and what line 198 read of self.driver
InitClick ==
    /\ HandlerEntered(1)
    /\ profile = "Default"
    /\ call \in [el : {"None", "element"}, chains : BOOLEAN,
                 direct : BOOLEAN, pointer : BOOLEAN, scroll : BOOLEAN,
                 dispatch : BOOLEAN, pc : {"direct"}, guard : {"unread"},
                 tried : {<<>>}, out : {Pending}]
    /\ NoHandler

\* the statement `stage` has failed: on to position `next` when its exception
\* is caught, else out of _safe_click
Failed(stage, tried, next) ==
    IF Caught(stage) THEN [call EXCEPT !.pc = next, !.tried = tried]
    ELSE [call EXCEPT !.pc = "returned", !.out = ClickResult("raise", tried, FALSE)]

\* the statement has gone through: return True (195, 201, 216)
Succeeded(tried) ==
    [call EXCEPT !.pc = "returned", !.out = ClickResult("True", tried, FALSE)]

\* lines 191-197: no element, or el.click()
ClickDirect ==
    /\ call.pc = "direct"
    /\ call' = IF call.el = "None"
               THEN [call EXCEPT !.pc = "returned", !.out = ClickResult("False", <<>>, FALSE)]
               ELSE IF GoesThrough(call.direct)
               THEN Succeeded(<<<<"direct", TRUE>>>>)
               ELSE Failed("direct", <<<<"direct", FALSE>>>>, "guard")
    /\ UNCHANGED <<botVars, page, frame, commits>>

\* line 198: if ActionChains is not None and self.driver is not None
ClickGuard ==
    /\ call.pc = "guard"
    /\ call' = [call EXCEPT !.guard = driver,
                            !.pc = IF call.chains /\ driver # "None"
                                   THEN "pointer" ELSE "scroll"]
    /\ UNCHANGED <<botVars, page, frame, commits>>

\* lines 199-203: ActionChains(self.driver).move_to_element(el).click().perform()
ClickPointer ==
    /\ call.pc = "pointer"
    /\ call' = IF GoesThrough(call.pointer)
               THEN Succeeded(Append(call.tried, <<"pointer", TRUE>>))
               ELSE Failed("pointer", Append(call.tried, <<"pointer", FALSE>>), "scroll")
    /\ UNCHANGED <<botVars, page, frame, commits>>

\* lines 204-208: scrollIntoView through self.driver and a sleep of 0.05 s; an
\* exception is passed over
ClickScroll ==
    /\ call.pc = "scroll"
    /\ call' = IF GoesThrough(call.scroll) THEN [call EXCEPT !.pc = "dispatch"]
               ELSE Failed("scroll", call.tried, "dispatch")
    /\ UNCHANGED <<botVars, page, frame, commits>>

\* lines 209-219: the mouse events dispatched through self.driver; an
\* exception is logged and the answer is False
ClickDispatch ==
    /\ call.pc = "dispatch"
    /\ call' = IF GoesThrough(call.dispatch)
               THEN Succeeded(Append(call.tried, <<"synthetic", TRUE>>))
               ELSE IF Caught("synthetic")
               THEN [call EXCEPT !.pc = "returned",
                        !.out = ClickResult("False",
                                    Append(call.tried, <<"synthetic", FALSE>>), TRUE)]
               ELSE Failed("synthetic", Append(call.tried, <<"synthetic", FALSE>>),
                           "returned")
    /\ UNCHANGED <<botVars, page, frame, commits>>

\* the next statement of the call
ClickCall ==
    \/ ClickDirect
    \/ ClickGuard
    \/ ClickPointer
    \/ ClickScroll
    \/ ClickDispatch

\* stop_and_close on the controlling thread while the worker, which its join
\* gives up on, is inside the call
NextClick ==
    \/ ClickCall
    \/ StopRunning
    \/ StopAlive
    \/ StopJoinTimeout
    \/ StopQuitIssue
    \/ StopQuitReturn
    \/ StopClear

\* _safe_click on every element and every combination of statements that fail,
\* the session closed and cleared at any moment of it
SpecClick == InitClick /\ [][NextClick]_vars


\* -------------------------------------------- _click_next_if_any (445-475)
\* line 52
NEXT_BUTTON_TEXTS ==
    <<<<"n", "e", "x", "t">>,
      <<"s", "u", "b", "m", "i", "t">>,
      <<"c", "o", "n", "t", "i", "n", "u", "e">>,
      <<"e", "n", "t", "e", "r">>,
      <<"g", "o">>,
      <<"o", "k">>,
      <<"a", "g", "r", "e", "e">>,
      <<"c", "o", "n", "f", "i", "r", "m">>,
      <<"s", "e", "n", "d">>,
      <<"c", "o", "m", "p", "l", "e", "t", "e">>,
      <<"f", "i", "n", "i", "s", "h">>,
      <<"p", "r", "o", "c", "e", "e", "d">>,
      <<"a", "d", "v", "a", "n", "c", "e">>>>

\* bound: <button> elements on the page (which has one submit input at most)
MaxButtons == 2

\* the texts of the page's buttons and the values of its submit inputs
ButtonTexts == {<<"N", "e", "x", "t">>, <<"S", "U", "B", "M", "I", "T">>, <<"B", "a", "c", "k">>}
InputValues == {<<"S", "e", "n", "d">>, <<"R", "e", "s", "e", "t">>}

\* the searches of _click_next_if_any, in the order of its text
Searches == <<"buttons", "inputs", "forms">>

\* the elements whose text (field f) holds the word t, in document order
\* (448-449, 455-456: translate() lower-cases the letters A-Z of the text)
Holding(els, f, t) ==
    InOrder({i \in DOMAIN els : Contains(Translate(els[i][f]), t)})

\* the buttons inside the forms of the page, in document order (462-465)
FormButtons(els) == InOrder({i \in DOMAIN els : els[i].inForm})

\* b.text and any(x in b.text.lower() for x in NEXT_BUTTON_TEXTS) (466)
FormMatch(b) ==
    /\ b.text # <<>>
    /\ \E k \in DOMAIN NEXT_BUTTON_TEXTS : Contains(Lower(b.text), NEXT_BUTTON_TEXTS[k])

\* the run state once worker 1 has entered _click_next_if_any at the end of a
\* pass (as in Spec after AdvanceIssue on an open session)
AdvanceEntered ==
    /\ alive = TRUE
    /\ running = TRUE
    /\ driver = "open"
    /\ thread = 1
    /\ delay_min = 0
    /\ delay_max = MaxDelay
    /\ cpc = "idle"
    /\ carg = <<>>
    /\ wpc = [t \in Threads |-> IF t = 1 THEN "advance_call" ELSE "none"]
    /\ wh = [t \in Threads |-> 0]
    /\ todo = [t \in Threads |-> 0]
    /\ sel = [t \in Threads |-> -1]
    /\ slices = [t \in Threads |-> 0]
    /\ rmin = [t \in Threads |-> -1]
    /\ rmax = [t \in Threads |-> -1]
    /\ calls = {1}
    /\ stale = {}
    /\ passLog = [t \in Threads |-> IF t = 1 THEN HandlerOrder \o <<"advance">> ELSE <<>>]
    /\ why = [t \in Threads |-> "none"]
    /\ afterPause = [t \in Threads |-> -1]

\* a call of _click_next_if_any about to make its first query.  The page: its
\* buttons and its submit input, each with whether el.click() works on it;
\* ActionChains is imported, the pointer click fails, and the dispatched events
\* work or not.  The locals: the search and the word it is at, the candidates
\* left in btns, the candidate being clicked (cur) with the position of
\* _safe_click in it; clicks: the candidates clicked with what _safe_click
\* returned; ret: what the call returns; logged: the search error was logged;
\* raised: the search (and word) whose query raised
InitAdvance ==
    /\ AdvanceEntered
    /\ profile = "Default"
    /\ call \in [buttons : UNION {[1..n -> [text : ButtonTexts, inForm : BOOLEAN,
                                           click : BOOLEAN]] : n \in 0..MaxButtons},
                 inputs : UNION {[1..n -> [value : InputValues, click : BOOLEAN]] :
                                    n \in 0..1},
                 el : {"element"}, chains : {TRUE}, direct : {FALSE},
                 pointer : {FALSE}, scroll : {TRUE}, dispatch : BOOLEAN,
                 pc : {"query"}, guard : {"unread"}, tried : {<<>>}, out : {Pending},
                 search : {1}, word : {1}, btns : {<<>>}, cur : {0}, clicks : {<<>>},
                 ret : {"pending"}, logged : {FALSE}, raised : {<<"none", 0>>}]
    /\ NoHandler

\* the elements a search goes over and the attribute its XPath tests
SearchEls(c) == IF c.search = 2 THEN c.inputs ELSE c.buttons
SearchField(c) == IF c.search = 2 THEN "value" ELSE "text"

\* _safe_click(btn) is entered for candidate n (451, 458, 467)
Enter(c, n) ==
    [c EXCEPT !.cur = n, !.direct = SearchEls(c)[n].click, !.pc = "direct",
              !.guard = "unread", !.tried = <<>>, !.out = Pending]

\* the call is over: it returns True or False (453, 460, 469, 472, 475)
Return(c, ret) == [c EXCEPT !.pc = "done", !.ret = ret]

\* an exception inside the outer try, caught at 473: logged, False (474-475)
SearchError(c) ==
    [Return(c, "False") EXCEPT !.logged = TRUE,
                               !.raised = <<Searches[c.search], c.word>>]

\* an exception inside the try of the form search, caught at 470: on to line
\* 472, which returns False
FormError(c) == [Return(c, "False") EXCEPT !.raised = <<"forms", 0>>]

\* lines 448-449, 455-456: self.driver is read and find_elements is called for
\* the word the search is at; it raises when self.driver is None, when the
\* session is closed, or when the query fails on the open session
AdvanceQuery ==
    /\ call.pc = "query"
    /\ \E works \in BOOLEAN :
          call' = IF GoesThrough(works)
                  THEN [call EXCEPT !.btns = Holding(SearchEls(call), SearchField(call),
                                                     NEXT_BUTTON_TEXTS[call.word]),
                                    !.pc = "for"]
                  ELSE SearchError(call)
    /\ UNCHANGED <<botVars, page, frame, commits>>

\* head of `for btn in btns` (450, 457): the next candidate is clicked; with
\* none left the search goes to its next word, then to the next search
AdvanceFor ==
    /\ call.pc = "for"
    /\ call' = IF call.btns # <<>>
               THEN Enter([call EXCEPT !.btns = Tail(@)], Head(call.btns))
               ELSE IF call.word < Len(NEXT_BUTTON_TEXTS)
               THEN [call EXCEPT !.word = @ + 1, !.pc = "query"]
               ELSE IF call.search = 1
               THEN [call EXCEPT !.search = 2, !.word = 1, !.pc = "query"]
               ELSE [call EXCEPT !.search = 3, !.word = 1, !.pc = "forms"]
    /\ UNCHANGED <<botVars, page, frame, commits>>

\* a click that takes does not end the search
ClickedNext_all(took) == "for"

\* if self._safe_click(btn): return True (451-453, 458-460, 467-469)
ClickedNext(took) == IF took THEN "done" ELSE "for"

\* _safe_click has returned to _click_next_if_any
AdvanceClicked ==
    /\ call.pc = "returned"
    /\ LET r == call.out.result
           c == [call EXCEPT !.clicks = Append(@, <<Searches[call.search], call.cur, r>>)]
       IN  call' = IF r = "raise"
                   THEN IF call.search = 3 THEN FormError(c) ELSE SearchError(c)
                   ELSE IF ClickedNext(r = "True") = "done"
                   THEN Return(c, r)
                   ELSE [c EXCEPT !.pc = IF call.search = 3 THEN "text" ELSE "for"]
    /\ UNCHANGED <<botVars, page, frame, commits>>

\* line 462: self.driver.find_elements(By.TAG_NAME, "form"); a page with no
\* form leaves the loop of 463 with nothing to do
AdvanceForms ==
    /\ call.pc = "forms"
    /\ \E works \in BOOLEAN :
          call' = IF ~GoesThrough(works) THEN FormError(call)
                  ELSE IF FormButtons(call.buttons) = <<>> THEN Return(call, "False")
                  ELSE [call EXCEPT !.pc = "sub"]
    /\ UNCHANGED <<botVars, page, frame, commits>>

\* line 464: f.find_elements(By.TAG_NAME, "button") on the form
AdvanceSub ==
    /\ call.pc = "sub"
    /\ \E works \in BOOLEAN :
          call' = IF ~GoesThrough(works) THEN FormError(call)
                  ELSE [call EXCEPT !.btns = FormButtons(call.buttons), !.pc = "text"]
    /\ UNCHANGED <<botVars, page, frame, commits>>

\* lines 465-467: the text of the next button of the form is read (a browser
\* call) and the button is clicked when it holds a word; line 472 when no
\* button is left
AdvanceText ==
    /\ call.pc = "text"
    /\ \E works \in BOOLEAN :
          call' = IF call.btns = <<>> THEN Return(call, "False")
                  ELSE IF ~GoesThrough(works) THEN FormError(call)
                  ELSE IF FormMatch(call.buttons[Head(call.btns)])
                  THEN Enter([call EXCEPT !.btns = Tail(@)], Head(call.btns))
                  ELSE [call EXCEPT !.btns = Tail(@)]
    /\ UNCHANGED <<botVars, page, frame, commits>>

\* the next statement of the call outside _safe_click
AdvanceCall ==
    \/ AdvanceQuery
    \/ AdvanceFor
    \/ AdvanceClicked
    \/ AdvanceForms
    \/ AdvanceSub
    \/ AdvanceText

\* stop_and_close on the controlling thread while the worker, which its join
\* gives up on, is inside the call
NextAdvance ==
    \/ AdvanceCall
    \/ ClickCall
    \/ StopRunning
    \/ StopAlive
    \/ StopJoinTimeout
    \/ StopQuitIssue
    \/ StopQuitReturn
    \/ StopClear

\* _click_next_if_any on every page of the bounds, statement by statement, the
\* session closed and cleared at any moment of it
SpecAdvance == InitAdvance /\ [][NextAdvance]_vars


\* ================================================================ claims
\* handlers and advance() in the order one complete pass begins them
FullOrder == HandlerOrder \o <<"advance">>

InLoop(t) == wpc[t] \notin {"none", "done"}

\* C1: when the challenge detector has reported a challenge, the worker's next
\* step clears running, leaves alive as it is and goes back to the head of the
\* loop; no handler and no advance() was begun in that pass.
C1_ChallengePauses ==
    [][\A t \in Threads :
          (wpc[t] = "pause_captcha" /\ wpc'[t] # "pause_captcha")
          => /\ running' = FALSE
             /\ alive' = alive
             /\ wpc'[t] = "while"
             /\ passLog[t] = <<>> /\ passLog'[t] = <<>>]_vars

\* a worker back at line 480 after a challenge, the loop Paused
C1_Witness ==
    \E t \in Threads :
        /\ why[t] = "captcha" /\ wpc[t] = "while"
        /\ alive /\ ~running /\ passLog[t] = <<>>

\* C2: when advance() has returned false after a full pass, the worker's next
\* step clears running, leaves alive as it is and stays in the loop; a start()
\* on the alive loop sets running again and creates no thread.
C2_DeadEndPauses ==
    [][/\ \A t \in Threads :
             (wpc[t] = "pause_deadend" /\ wpc'[t] # "pause_deadend")
             => (running' = FALSE /\ alive' = alive /\ wpc'[t] = "while")
       /\ (alive /\ ~running /\ running')
             => (alive' /\ thread' = thread /\ wpc' = wpc)]_vars

\* the worker paused by a dead-end page and resumed by start(): same thread
C2_Witness ==
    \E t \in Threads :
        /\ why[t] = "deadend" /\ wpc[t] = "while" /\ passLog[t] = FullOrder
        /\ alive /\ running /\ thread = t

\* C3: an exception that reaches the loop's except clause clears running and
\* leaves the worker in the loop; a worker leaves the loop only from line 480
\* with alive false, and alive is cleared only by stop_and_close (line 160).
C3_FailurePauses ==
    [][/\ \A t \in Threads :
             /\ (wpc[t] = "pause_error" /\ wpc'[t] # "pause_error")
                   => (running' = FALSE /\ alive' = alive /\ wpc'[t] = "while")
             /\ (wpc[t] # "done" /\ wpc'[t] = "done")
                   => (wpc[t] = "while" /\ ~alive)
       /\ (alive /\ ~alive') => cpc = "stop_alive"]_vars

\* a worker back at line 480 after an exception, the loop Paused
C3_Witness ==
    \E t \in Threads :
        why[t] = "error" /\ wpc[t] = "while" /\ alive /\ ~running

\* what a pass has begun is a prefix of the fixed order
C4_Order ==
    \A t \in Threads :
        /\ Len(passLog[t]) <= Len(FullOrder)
        /\ passLog[t] = SubSeq(FullOrder, 1, Len(passLog[t]))

\* C4 as stated: handlers in the fixed order, and once running is false no
\* later handler of the pass begins and advance() is not attempted (a later
\* handler or advance() begins only while running is true).
C4_Original ==
    /\ []C4_Order
    /\ [][\A t \in Threads :
             (Len(passLog'[t]) > Len(passLog[t]) /\ Len(passLog'[t]) >= 2)
             => running]_vars

\* C4 amended: handlers in the fixed order; running is read after each handler
\* returns, and when it is false at that check the pass is abandoned: no later
\* handler begins and advance() is not attempted.
C4_CheckedBetweenHandlers ==
    /\ []C4_Order
    /\ [][\A t \in Threads :
             (wpc[t] = "after" /\ ~running /\ wpc'[t] # "after")
             => (wpc'[t] = "while" /\ passLog'[t] = passLog[t])]_vars

\* a pass abandoned after its second handler
C4_Witness ==
    \E t \in Threads :
        /\ why[t] = "cancel" /\ wpc[t] = "while"
        /\ passLog[t] = <<"radios", "checkboxes">>

\* C5: after pause(), with no start() since, a worker completes at most one
\* more commit.
C5_OneMoreCommit == \A t \in Threads : afterPause[t] <= 1

\* a worker that completed a commit after pause() and is inside its pacing sleep
C5_Witness ==
    \E t \in Threads :
        afterPause[t] = 1 /\ ~running /\ alive /\ wpc[t] \in {"sleep_max", "slice"}

\* C6: at most one worker thread is inside the traversal loop.
C6_SingleWorker == Cardinality({t \in Threads : InLoop(t)}) <= 1

\* C7: when stop_and_close returns, alive and running are false and the session
\* handle is cleared, whatever the state it was called in.
C7_StopLeavesStopped ==
    [][(cpc \in {"stop_driver", "stop_clear"} /\ cpc' = "idle")
          => (~alive' /\ ~running' /\ driver' = "None")]_vars

\* stop_and_close has returned after closing a session a worker was still using
C7_Witness ==
    /\ cpc = "idle" /\ ~alive /\ ~running /\ driver = "None"
    /\ \E t \in Threads : t \in stale /\ InLoop(t)

\* C8: pause() sets running false and changes nothing else; a start() that
\* follows on the alive loop sets running and keeps thread and session.
C8_PauseOnlyRunning ==
    [][/\ Pause => /\ running' = FALSE
                   /\ UNCHANGED <<alive, thread, wpc, driver, profile, delay_min, delay_max>>
       /\ (Start /\ alive) => /\ running' = TRUE
                              /\ UNCHANGED <<alive, thread, wpc, driver, profile,
                                             delay_min, delay_max>>]_vars

\* paused mid-handler on a reconfigured loop: worker, session and window are there
C8_Witness ==
    /\ alive /\ ~running /\ driver = "open" /\ cpc = "idle"
    /\ thread = 1 /\ wpc[1] = "click_call" /\ afterPause[1] = 0
    /\ delay_min = MaxDelay /\ profile = "Conservative"

\* C9: no two browser-automation calls are in progress at the same time.
C9_NoConcurrentCalls == Cardinality(calls) <= 1

\* C10: the pair _rand_delay has read satisfies 0 <= min <= max.
C10_WindowReadWhole ==
    \A t \in Threads :
        (rmin[t] # -1 /\ rmax[t] # -1) => (0 <= rmin[t] /\ rmin[t] <= rmax[t])

\* the strategy of the call under study and what it has come to
CallStrategy == Strategy(Lower(call.q), call.options)
Returned == call.out[1] = "return"
Raised == call.out[1] = "raise"

IsNumeral(s) == s # <<>> /\ \A i \in DOMAIN s : \E d \in DOMAIN Digits : Digits[d] = s[i]

DigitValue(c) == (CHOOSE d \in DOMAIN Digits : Digits[d] = c) - 1

\* the integer a numeral denotes
RECURSIVE ParseInt(_)
ParseInt(s) ==
    IF s = <<>> THEN 0
    ELSE 10 * ParseInt(SubSeq(s, 1, Len(s) - 1)) + DigitValue(s[Len(s)])

\* C17: the answer follows the first cue in the order yes/no, numeric, favorite
\* (only with options), opinion: a text with a yes/no cue is answered "Yes" or
\* "No" whatever other cues it holds; then a numeral; then one of the options;
\* then an entry of a profile pool; and a text with no cue is answered from the
\* options when there are any, else from the short-answer pool.
C17_Precedence ==
    (Returned \/ Raised) =>
    LET q == Lower(call.q)
        yesno == HasCue(q, "yesno")
        numeric == HasCue(q, "numbers")
        favorite == call.options # <<>> /\ HasCue(q, "favorite")
        opinion == HasCue(q, "opinion")
        pools == Profiles[call.profile]
        fromOptions == Returned /\ \E i \in DOMAIN call.options : call.out[2] = call.options[i]
        fromShort == Returned /\ \E i \in DOMAIN pools.text : call.out[2] = pools.text[i]
        fromLong == Returned /\ \E i \in DOMAIN pools.textarea : call.out[2] = pools.textarea[i]
    IN  /\ yesno => (Returned /\ call.out[2] \in {Yes, No})
        /\ (~yesno /\ numeric) => (Returned /\ IsNumeral(call.out[2]))
        /\ (~yesno /\ ~numeric /\ favorite) => fromOptions
        /\ (~yesno /\ ~numeric /\ ~favorite /\ opinion) => (fromShort \/ fromLong \/ Raised)
        /\ (~yesno /\ ~numeric /\ ~favorite /\ ~opinion) =>
               IF call.options # <<>> THEN fromOptions ELSE (fromShort \/ Raised)

\* a text with a yes/no, a numeric and an opinion cue at once, answered "No"
C17_Witness ==
    /\ Returned /\ call.out[2] = No
    /\ HasCue(Lower(call.q), "yesno") /\ HasCue(Lower(call.q), "opinion")
    /\ call.q # Lower(call.q)

\* C18: on the numeric branch the call returns the decimal string of an integer
\* between 18 and 65, whatever the options and the profile.
C18_NumericRange ==
    ((Returned \/ Raised) /\ CallStrategy = "Numeric") =>
        /\ Returned /\ IsNumeral(call.out[2])
        /\ ParseInt(call.out[2]) \in 18..65
        /\ DecStr(ParseInt(call.out[2])) = call.out[2]

\* the numeric answer "65" given with options to choose from and empty pools
C18_Witness ==
    /\ CallStrategy = "Numeric" /\ Returned /\ ParseInt(call.out[2]) = 65
    /\ call.options # <<>> /\ call.profile = "Empty"

\* the pools the strategy draws from
RelevantPools(strategy) ==
    CASE strategy = "Opinion" -> {"text", "textarea"}
      [] strategy = "Freeform" -> {"text"}
      [] OTHER -> {}

\* C20: the call raises exactly when the options are empty and the pools its
\* strategy draws from are empty; in every other case it returns.
C20_RaisesOnlyWhenBothEmpty ==
    (Returned \/ Raised) =>
        (Raised <=> /\ call.options = <<>>
                    /\ RelevantPools(CallStrategy) # {}
                    /\ \A k \in RelevantPools(CallStrategy) :
                          Profiles[call.profile][k] = <<>>)

\* C19: the loop is never Running with an active profile one of whose answer
\* pools is empty (such a profile is rejected when it is configured).
C19_NoEmptyPoolRunning ==
    running => (Profiles[profile].text # <<>> /\ Profiles[profile].textarea # <<>>)

\* C11: a pacing sleep entered while running is false returns False at its
\* first look at the flag, whatever duration was drawn.
C11_PausedPaceReturnsFalse ==
    [][\A t \in Threads :
          (wpc[t] = "sleep_max" /\ wpc'[t] = "slice" /\ ~running)
          => SliceNext(running', slices'[t]) = "False"]_vars

\* C12: whenever a multi-choice group with n >= 1 unselected candidates has
\* been inspected, the handler has picked a count k with 2 <= k <= min(5, n)
\* and goes on to commit; n = 1 included.
C12_PickCount ==
    frame.n >= 1 =>
        /\ frame.pc # "raised"
        /\ 2 <= frame.k
        /\ frame.k <= (IF frame.n < 5 THEN frame.n ELSE 5)

\* C13: no checkbox was selected when the handler clicked it, in any pass.
C13_NeverDeselects == \A c \in commits : ~c.was

\* a second complete pass over a page the first pass has fully selected: no
\* commit in it
C13_Witness ==
    /\ frame.pass = 2 /\ frame.pc = "done" /\ frame.i = Len(page) /\ Len(page) >= 2
    /\ \A b \in DOMAIN page : page[b].selected
    /\ \E c \in commits : c.pass = 1
    /\ \A c \in commits : c.pass # 2


\* C14: a single-choice question that has a selected option receives no click,
\* in the first pass and in every later one: each click is made on a radio of a
\* question none of whose radios was selected at that moment, so that a pass
\* over a page whose questions an earlier pass answered clicks nothing.
C14_AnsweredGroupSkipped ==
    \A c \in commits :
        \A g \in c.selected : page[g].name # page[c.control].name


\* C15: in one pass the radios of one question receive at most one click
\* between them; and the click made for a yes/no-cue question on a group whose
\* options read "Yes", "No" is on the option whose text equals the answer,
\* letter case aside.
C15_OneCommitPerQuestion ==
    /\ \A c1, c2 \in commits :
          (c1.pass = c2.pass /\ page[c1.control].name = page[c2.control].name)
          => c1 = c2
    /\ \A c \in commits :
          LET opts == InOrder(c.group) IN
          ([i \in DOMAIN opts |-> OptText(page, opts[i])] = <<Yes, No>>
             /\ HasCue(Lower(c.question), "yesno"))
          => Lower(OptText(page, c.control)) = Lower(c.pick_text)


\* C16: the text handlers never write to a field that holds non-empty text,
\* whose content no pass changes, and what they send to a field labelled
\* "How old are you?" is the decimal string of an integer in [18,65].
C16_FilledFieldKept ==
    /\ \A c \in commits : c.was = <<>>
    /\ \A j \in DOMAIN page :
          page[j].loaded # <<>> => page[j].content = page[j].loaded
    /\ \A c \in commits :
          c.question = AgeQuestion
          => (IsNumeral(c.ans) /\ ParseInt(c.ans) >= 18 /\ ParseInt(c.ans) <= 65)


\* C26: running is never true while alive is false, whatever start(), pause(),
\* stop_and_close() and the workers have done.
C26_RunningImpliesAlive == running => alive

\* the loop running again on a second thread after a stop_and_close that gave
\* up on the first, which is still in _thread_main
C26_Witness ==
    /\ running /\ alive /\ thread = 2 /\ cpc = "idle"
    /\ InLoop(1) /\ InLoop(2)

\* C24: a failure on one control stays with that control: while the session is
\* live, what a worker does with a control (its queries, its click or write)
\* never takes it to the except clause of the loop, which pauses the loop.
C24_ControlFailureConfined ==
    [][\A t \in Threads :
          (wpc[t] \in {"inspect_call", "click_call"}
             /\ driver = "open" /\ driver' = "open" /\ t \notin stale)
          => wpc'[t] # "pause_error"]_vars

\* C27: a worker begins a browser-automation call only on a session that is
\* open, and through element handles of that session: none after
\* stop_and_close has closed the session.
C27_NoCallAfterClose ==
    [][\A t \in Threads :
          (t \notin calls /\ t \in calls')
          => (driver = "open" /\ t \notin stale)]_vars

\* every worker thread has ended, or none was started
AllTerminated == \A t \in Threads : wpc[t] \in {"none", "done"}

\* C28: once stop_and_close has cleared alive, and unless a start() follows,
\* every worker leaves the loop and ends.
C28_StopTerminates == (~alive) ~> (alive \/ AllTerminated)

\* stop_and_close has returned and both threads start() had created have left
\* the loop
C28_Witness ==
    /\ ~alive /\ ~running /\ cpc = "idle" /\ driver = "None"
    /\ wpc[1] = "done" /\ wpc[2] = "done"


\* C23: when the inspection of the page raises, the detector answers false and
\* raises nothing: the worker goes on to the first handler of the pass, the loop
\* as running and as alive as it was.
C23_DetectorFailsOpen ==
    [][\A t \in Threads :
          /\ (wpc[t] = "captcha_except" /\ wpc'[t] # "captcha_except")
                => /\ wpc'[t] = "find" /\ wh'[t] = 1
                   /\ running' = running /\ alive' = alive
                   /\ passLog'[t] = <<>>
          /\ (wpc[t] \in {"captcha", "captcha_call"})
                => wpc'[t] \in {"captcha", "captcha_call", "captcha_except",
                                "pause_captcha", "find"}]_vars

\* a query of the detector has raised on a live session while the loop is running
C23_Witness ==
    \E t \in Threads :
        wpc[t] = "captcha_except" /\ running /\ alive /\ driver = "open" /\ thread = t


\* the place of a stage in the ladder
Rung(stage) == CHOOSE n \in DOMAIN Ladder : Ladder[n] = stage

    /\ call.guard = "None"
    /\ call.out = ClickResult("False", <<<<"direct", FALSE>>, <<"synthetic", FALSE>>>>, TRUE)


\* the place of a search in the order of the text
SearchNo(name) == CHOOSE k \in DOMAIN Searches : Searches[k] = name

\* some stage of _safe_click works on the element of click cl while the
\* session is open
CanTake(cl) ==
    \/ call.dispatch
    \/ IF cl[1] = "inputs" THEN call.inputs[cl[2]].click ELSE call.buttons[cl[2]].click

\* a word of the vocabulary occurs in the text as the XPath searches see it
HoldsWord(text) ==
    \E k \in DOMAIN NEXT_BUTTON_TEXTS : Contains(Translate(text), NEXT_BUTTON_TEXTS[k])

\* the candidates of the three searches
Matching ==
    {<<"buttons", n>> : n \in {m \in DOMAIN call.buttons : HoldsWord(call.buttons[m].text)}}
    \cup {<<"inputs", n>> : n \in {m \in DOMAIN call.inputs : HoldsWord(call.inputs[m].value)}}
    \cup {<<"forms", n>> : n \in {m \in DOMAIN call.buttons :
                                     call.buttons[m].inForm /\ FormMatch(call.buttons[m])}}

\* C22: advance() clicks generic buttons, then submit inputs, then buttons in
\* forms; it makes at most one click that takes, the last one, and returns true
\* exactly then; when no inspection raised it returns false only after every
\* matching candidate failed to click (on a session still open: none of them can
\* take a click); an inspection that raises gives false, and nothing is raised.
C22_AdvanceFirstClick ==
    (call.pc = "done") =>
        LET o == call.clicks IN
        /\ call.ret \in {"True", "False"}
        /\ \A a, b \in DOMAIN o : a < b => SearchNo(o[a][1]) <= SearchNo(o[b][1])
        /\ \A a \in DOMAIN o : <<o[a][1], o[a][2]>> \in Matching
        /\ \A a \in 1..(Len(o) - 1) : o[a][3] = "False"
        /\ (call.ret = "True") = (o # <<>> /\ o[Len(o)][3] = "True")
        /\ \A a \in DOMAIN o : o[a][3] = "True" => CanTake(o[a])
        /\ driver = "open" => \A a \in DOMAIN o : CanTake(o[a]) => o[a][3] = "True"
        /\ (call.ret = "False" /\ call.raised[1] = "none")
              => \A m \in Matching : \E a \in DOMAIN o : o[a] = <<m[1], m[2], "False">>
        /\ call.raised[1] # "none" => call.ret = "False"
        /\ call.raised[1] \in {"buttons", "inputs"} => call.logged
        /\ call.logged => call.ret = "False"

\* both buttons failed to click and the submit input took the click
C22_Witness ==
    /\ call.pc = "done"
    /\ call.ret = "True"
    /\ Len(call.clicks) = 3
    /\ call.clicks[3][1] = "inputs"


\* C25: a group for which no option element is found is skipped: the handler
\* raises nothing for it (and so goes on to the next group).
C25_EmptyGroupSkipped ==
    (frame.i >= 1 /\ Opts(page, frame.i, frame.anc) = {}) => frame.pc # "raised"

====
